---- MODULE Spec2Model ----
(***************************************************************************)
(* A model of the ServiceInfo chunking pipes of go-fdo as vendored by      *)
(* go-fdo-server (serviceinfo/chunk.go).                                   *)
(*                                                                         *)
(* Spec     one chunk-out pipe (NewChunkOutPipe): a producer goroutine     *)
(*          driving an UnchunkWriter and a consumer goroutine driving the  *)
(*          ChunkReader, interleaved at every blocking point (channel      *)
(*          send/receive, pipe read/write).                                *)
(* SpecNum  the size arithmetic of ChunkReader.ReadChunk on its own, over  *)
(*          sizes, key lengths and value lengths around its thresholds.    *)
(***************************************************************************)
EXTENDS Integers, Sequences, FiniteSets, TLC

VARIABLES
    limits,      \* how many calls the producer and the consumer make in this run
    buffers,     \* the argument of NewChunkOutPipe
    chan,        \* readers channel: pipe ids sent and not yet received
    chanClosed,  \* close(w.readers) has happened
    pipes,       \* every pipe created so far, by id
    w,           \* UnchunkWriter.w (0 is nil)
    closed,      \* UnchunkWriter.closed
    perr,        \* the error a CloseWithError that went ahead was given, else "nil"
    ppc,         \* where the producer goroutine is
    parg,        \* arguments of the producer operation in progress
    pres,        \* result of the producer's last finished operation
    nops,        \* producer operations started
    nextByte,    \* next value byte the producer will write (bytes are numbered)
    r,           \* ChunkReader.r (0 is nil)
    rkey,        \* ChunkReader.rkey, the key as raw CBOR
    key,         \* ChunkReader.key
    csize,       \* size argument of the ReadChunk in progress
    cacc,        \* bytes io.ReadFull has collected so far
    cpc,         \* where the consumer goroutine is
    cres,        \* result of the consumer's last finished ReadChunk
    nreads,      \* ReadChunk calls started
    rdone,       \* ChunkReader.Close has been called: no more reads
    out,         \* every result ReadChunk has returned, in order
    allFit,      \* every ReadChunk so far had size >= MinMTU
    nsize,       \* SpecNum: size
    nstrlen,     \* SpecNum: length of the key string
    navail,      \* SpecNum: value bytes the pipe holds before its EOF
    nres,        \* SpecNum: result of ReadChunk
    nn,          \* SpecNum: length of the value of the frame returned
    inKVs,       \* SpecIn: the logical KVs the sender produced, each a key and a frame count
    inFed,       \* SpecIn: frames passed to ChunkWriter.WriteChunk so far
    inCw,        \* SpecIn: ChunkWriter.prevKey and the bytes written to each pipe sent
    inClosed,    \* SpecIn: ChunkWriter.Close has been called
    inOut,       \* SpecIn: the (key, stream) pairs UnchunkReader.NextServiceInfo yielded
    dmList,      \* SpecDm: the modules argument of writeModuleMessages
    dmMtu,       \* SpecDm: the mtu argument
    dmModules,   \* SpecDm: modules, the names not yet placed in a chunk that fits
    dmChunk,     \* SpecDm: chunk, the DevmodModulesChunk being built
    dmOut,       \* SpecDm: the messages written to the UnchunkWriter, in order
    dmPc,        \* SpecDm: "start", "loop", "done" (returned nil) or "err"
    smDevmod,    \* SpecSm: what the session store's Devmod returns for each token
    states,      \* SpecSm: moduleStateMachines.states, the map indexed by token
    smRes,       \* SpecSm: what the last call made with each token returned
    smSolo,      \* SpecSm: for each token, the map and result had only its calls been made
    smStarted,   \* SpecSm: the session has called NextModule and not yet CleanupModules
    smPc,        \* SpecSmRace: where the request in progress for each token is
    smOp,        \* SpecSmRace: the call the request in progress is making
    smCrashed,   \* SpecSmRace: the runtime has stopped the process
    smN,         \* SpecSm: calls made so far
    rvStore,     \* SpecRv: the "rvinfo" row of the database (NoRow when there is none)
    rvInfo,      \* SpecRv: *rvInfo, the in-memory directives the handler was given
    rvReq,       \* SpecRv: the last request served
    rvResp,      \* SpecRv: the response to it
    rvPrev,      \* SpecRv: the row and *rvInfo before it
    rvLastOK,    \* SpecRv: the value of the last POST answered 201 or PUT answered 200
    rvN,         \* SpecRv: requests served so far
    toWget,      \* SpecTo: whether the URL of the owner's --command-wget can be fetched
    toVoucher,   \* SpecTo: the owner's stored voucher of each GUID
    toBlob,      \* SpecTo: the rendezvous server holds the owner's To1d for the GUID
    toSession,   \* SpecTo: the TO2 session of the device: its phase and position in it
    toCred,      \* SpecTo: the device's credential
    toLast,      \* SpecTo: how the device's last TO2 run stands
    toFailedOnce, \* SpecTo: a TO2 run of the device has failed during ServiceInfo
    prServer,    \* SpecPr: which server's transport.Handler receives the messages
    prSession,   \* SpecPr: token -> session of the responder (state, next expected types)
    prLast,      \* SpecPr: token -> last message sent on it and the reply it got
    prDead,      \* SpecPr: token -> "ended" by an error, "accepted" a message after that
    prN,         \* SpecPr: messages sent so far
    diState,     \* SpecDi: guid -> state of the DI responder's session for that device
    diHmac,      \* SpecDi: guid -> the HMAC the device sent in SetHmac (0: none)
    diVouchers,  \* SpecDi: guid -> the voucher in the voucher store
    diSupplied,  \* SpecDi: guid -> the newOwnerPK of the last extend ("none": no extend)
    diResold,    \* SpecDi: guid -> extends of the stored voucher after DI
    ciphers,     \* SpecKex: the cipher suite registry, id -> suite
    kxWellFormed,\* SpecKex: every suite passed to RegisterCipherSuite since init was well-formed
    kxSession,   \* SpecKex: token -> TO2 session (state, negotiated cipher suite)
    kxReply,     \* SpecKex: token -> offer of the last HelloDevice and the reply to it
    kxN,         \* SpecKex: HelloDevice messages and registrations so far
    cfgCmd,      \* SpecCfg: the command run: manufacturing, owner or rendezvous
    cfgArgs,     \* SpecCfg: the positional arguments of the command line
    cfgFlags,    \* SpecCfg: flag -> value given on the command line ("unset": not given)
    cfgFile,     \* SpecCfg: the configuration file: given with --config, readable, key -> value
    cfgOut,      \* SpecCfg: what the command's load function left in its variables
    dwFields,    \* SpecDw: devmod field (message name) -> the field is not empty
    dwMod,       \* SpecDw: chunks writeModuleMessages will write (0: the MTU is too small)
    dwOut,       \* SpecDw: message names written to the UnchunkWriter, in order
    dwPc,        \* SpecDw: position of Devmod.Write
    dwClosed,    \* SpecDw: how the UnchunkWriter was closed
    bpBuf,       \* SpecBp: bufPipe.buf, the bytes written and not yet read
    bpErr,       \* SpecBp: bufPipe.err ("nil" while the pipe is open)
    bpCh,        \* SpecBp: bufPipe.ch, tokens in the channel of capacity 1 and whether it is closed
    bpRpc,       \* SpecBp: position of the reader inside Read, and the length of its slice
    bpRes,       \* SpecBp: the error the last Read returned ("nil": data)
    bpRead,      \* SpecBp: all bytes Read has returned, in order
    bpWritten,   \* SpecBp: all bytes Write has accepted, in order
    uwClosed,    \* SpecUw: UnchunkWriter.closed
    uwW,         \* SpecUw: UnchunkWriter.w is not nil
    uwChan,      \* SpecUw: the readers channel: sends, closes, and a panic on it
    uwLast,      \* SpecUw: the last call, whether the writer was closed before it, its result
    uwCalls,     \* SpecUw: the calls made so far, in order
    rcReqs,      \* SpecRvRace: the requests in flight, each a method, a Content-Type and a body
    rcPc,        \* SpecRvRace: where each request's goroutine is in its handler
    rcMu,        \* SpecRvRace: the request holding the handler's mutex, 0 when it is free
    rcData,      \* SpecRvRace: what parseRequestBody returned to each request
    rcStore,     \* SpecRvRace: the rvinfo row of the database
    rcInfo,      \* SpecRvRace: *rvInfo, the directives the servers use
    rcResp,      \* SpecRvRace: the status each request was answered with, 0 before
    rcSeen       \* SpecRvRace: the row as it was when each request was answered

mainVars == <<limits, buffers, chan, chanClosed, pipes, w, closed, perr, ppc, parg, pres, nops,
              nextByte, r, rkey, key, csize, cacc, cpc, cres, nreads, rdone, out,
              allFit>>
numVars == <<nsize, nstrlen, navail, nres, nn>>
inVars == <<inKVs, inFed, inCw, inClosed, inOut>>
dmVars == <<dmList, dmMtu, dmModules, dmChunk, dmOut, dmPc>>
smVars == <<smDevmod, states, smRes, smSolo, smStarted, smPc, smOp, smCrashed, smN>>
rvVars == <<rvStore, rvInfo, rvReq, rvResp, rvPrev, rvLastOK, rvN>>
toVars == <<toWget, toVoucher, toBlob, toSession, toCred, toLast, toFailedOnce>>
prVars == <<prServer, prSession, prLast, prDead, prN>>
diVars == <<diState, diHmac, diVouchers, diSupplied, diResold>>
kxVars == <<ciphers, kxWellFormed, kxSession, kxReply, kxN>>
cfgVars == <<cfgCmd, cfgArgs, cfgFlags, cfgFile, cfgOut>>
dwVars == <<dwFields, dwMod, dwOut, dwPc, dwClosed>>
bpVars == <<bpBuf, bpErr, bpCh, bpRpc, bpRes, bpRead, bpWritten>>
uwVars == <<uwClosed, uwW, uwChan, uwLast, uwCalls>>
rcVars == <<rcReqs, rcPc, rcMu, rcData, rcStore, rcInfo, rcResp, rcSeen>>
sideVars == <<numVars, inVars, dmVars, smVars, rvVars, toVars, prVars, diVars, kxVars, cfgVars, dwVars, bpVars, uwVars, rcVars>>
vars == <<mainVars, sideVars>>

(* What an action of one part of the model leaves alone *)
notNum == <<mainVars, inVars, dmVars, smVars, rvVars, toVars, prVars, diVars, kxVars, cfgVars, dwVars, bpVars, uwVars, rcVars>>
notIn == <<mainVars, numVars, dmVars, smVars, rvVars, toVars, prVars, diVars, kxVars, cfgVars, dwVars, bpVars, uwVars, rcVars>>
notDm == <<mainVars, numVars, inVars, smVars, rvVars, toVars, prVars, diVars, kxVars, cfgVars, dwVars, bpVars, uwVars, rcVars>>
notSm == <<mainVars, numVars, inVars, dmVars, rvVars, toVars, prVars, diVars, kxVars, cfgVars, dwVars, bpVars, uwVars, rcVars>>
notRv == <<mainVars, numVars, inVars, dmVars, smVars, toVars, prVars, diVars, kxVars, cfgVars, dwVars, bpVars, uwVars, rcVars>>
notTo == <<mainVars, numVars, inVars, dmVars, smVars, rvVars, prVars, diVars, kxVars, cfgVars, dwVars, bpVars, uwVars, rcVars>>
notPr == <<mainVars, numVars, inVars, dmVars, smVars, rvVars, toVars, diVars, kxVars, cfgVars, dwVars, bpVars, uwVars, rcVars>>
notDi == <<mainVars, numVars, inVars, dmVars, smVars, rvVars, toVars, prVars, kxVars, cfgVars, dwVars, bpVars, uwVars, rcVars>>
notKx == <<mainVars, numVars, inVars, dmVars, smVars, rvVars, toVars, prVars, diVars, cfgVars, dwVars, bpVars, uwVars, rcVars>>
notCfg == <<mainVars, numVars, inVars, dmVars, smVars, rvVars, toVars, prVars, diVars, kxVars, dwVars, bpVars, uwVars, rcVars>>
notDw == <<mainVars, numVars, inVars, dmVars, smVars, rvVars, toVars, prVars, diVars, kxVars, cfgVars, bpVars, uwVars, rcVars>>
notBp == <<mainVars, numVars, inVars, dmVars, smVars, rvVars, toVars, prVars, diVars, kxVars, cfgVars, dwVars, uwVars, rcVars>>
notUw == <<mainVars, numVars, inVars, dmVars, smVars, rvVars, toVars, prVars, diVars, kxVars, cfgVars, dwVars, bpVars, rcVars>>
notRc == <<mainVars, numVars, inVars, dmVars, smVars, rvVars, toVars, prVars, diVars, kxVars, cfgVars, dwVars, bpVars, uwVars>>

----------------------------------------------------------------------------
(* Bounds of the model *)

MaxOps == 4
MaxReads == 3
NumMaxSize == 300

(* Program constants *)

MinOverhead == 7
OneByteLen == 24
TwoByteLen == 256
Uint16 == 65536

BufferChoices == {0, 1}
Keys == {<<1>>, <<1, 2>>}
Sizes == {3, 9, 10}
WriteLens == {1, 6}

Min(a, b) == IF a < b THEN a ELSE b

RECURSIVE SetMax(_)
SetMax(S) == IF S = {} THEN 0
             ELSE LET x == CHOOSE y \in S : TRUE
                      m == SetMax(S \ {x})
                  IN IF x > m THEN x ELSE m

Take(s, n) == SubSeq(s, 1, n)
Drop(s, n) == SubSeq(s, n + 1, Len(s))

----------------------------------------------------------------------------
(* CBOR lengths.  A text or byte string of n bytes is headed by 1 byte for *)
(* n < 24, 2 bytes for n < 256 and 3 bytes for n < 65536.                  *)

HeadLen(n) == IF n < 24 THEN 1 ELSE IF n < 256 THEN 2 ELSE 3

EncLen(n) == HeadLen(n) + n

(* cbor.Encoder.Encode of a short text string: header byte 0x60+len, then  *)
(* the characters.                                                         *)
EncodeKey(k) == <<96 + Len(k)>> \o k

(* The bytes a decoder needs for the item at the head of buf. *)
ItemLen(buf) == 1 + (buf[1] - 96)

(* cbor.Unmarshal of a raw text string: the characters after the header *)
DecodeKey(raw) == Drop(raw, 1)

(* Encoded length of the frame KV{Key, Val}: array header, key, value. *)
FrameLen(keyEncLen, n) == 1 + keyEncLen + EncLen(n)

----------------------------------------------------------------------------
(* ChunkReader.ReadChunk: the arithmetic *)

KeyLimitStrict(size) == (size + Uint16 - MinOverhead - 1) % Uint16

KeyLimit(size) == (size + Uint16 - MinOverhead) % Uint16

MaxOverheadOneStep(size, klen) ==
    LET o1 == 1 + klen + 1
    IN IF size - o1 >= OneByteLen THEN o1 + 1 ELSE o1

MaxOverhead(size, klen) ==
    LET o1 == 1 + klen + 1
        o2 == IF size - o1 >= OneByteLen THEN o1 + 1 ELSE o1
        o3 == IF size - o2 >= TwoByteLen THEN o2 + 1 ELSE o2
    IN o3

Budget(size, klen) == size - MaxOverhead(size, klen)

TooSmallStrict(size, klen) == Budget(size, klen) < 0

TooSmall(size, klen) == Budget(size, klen) <= 0

MinMTU == SetMax({Len(EncodeKey(k)) : k \in Keys}) + MinOverhead

----------------------------------------------------------------------------
(* Pipes.  kind "io" is io.Pipe, kind "buf" is bufPipe.  bufPipe has one   *)
(* err field for both ends; it is kept in werr.                            *)

(* role, key, wr, eof and dropped record history: what the pipe was made  *)
(* for ("kv" by NextServiceInfo, "force" by ForceNewMessage, "cwe" by      *)
(* CloseWithError, "unsent" by Close), the key and value bytes written to  *)
(* it, whether the reader read it to its EOF, and whether the reader       *)
(* discarded it while reading its key.                                     *)
NewPipe(kind, k, role) ==
    [kind |-> kind, buf |-> <<>>, werr |-> "nil", rerr |-> "nil",
     key |-> k, wr |-> <<>>, role |-> role, eof |-> FALSE, dropped |-> FALSE]

PipeKind == IF buffers > 0 THEN "buf" ELSE "io"

PipeDone(p) == p.werr # "nil" \/ p.rerr # "nil"

(* PipeWriter.CloseWithError / bufPipe.CloseWithError called by the writer *)
WriterClose(p, e) == IF p.werr = "nil" THEN [p EXCEPT !.werr = e] ELSE p

(* PipeReader.CloseWithError / bufPipe.CloseWithError called by the reader *)
ReaderCloseWithError(p, e) ==
    IF p.kind = "io"
    THEN IF p.rerr = "nil" THEN [p EXCEPT !.rerr = e] ELSE p
    ELSE IF p.werr = "nil" THEN [p EXCEPT !.werr = e] ELSE p

(* PipeReader.Close is CloseWithError(nil), stored as ErrClosedPipe;        *)
(* bufPipe.Close is CloseWithError(io.EOF).                                *)
ReaderClose(p) ==
    ReaderCloseWithError(p, IF p.kind = "io" THEN "ErrClosedPipe" ELSE "EOF")

(* The error a Read reports once the pipe is closed *)
ReadErr(p) ==
    IF p.kind = "io"
    THEN IF p.rerr = "nil" /\ p.werr # "nil" THEN p.werr ELSE "ErrClosedPipe"
    ELSE p.werr

(* The error a Write reports once the pipe is closed *)
WriteErr(p) ==
    IF p.kind = "io"
    THEN IF p.werr = "nil" /\ p.rerr # "nil" THEN p.rerr ELSE "ErrClosedPipe"
    ELSE "ErrClosedPipe"

(* bufPipe.Read returns buffered data before it looks at the error;        *)
(* io.Pipe.Read looks at done first.                                       *)
CanReadData(p) ==
    /\ p.buf # <<>>
    /\ (p.kind = "io" => ~PipeDone(p))

CanReadErr(p) ==
    IF p.kind = "io" THEN PipeDone(p) ELSE p.buf = <<>> /\ p.werr # "nil"

----------------------------------------------------------------------------
TypeOK ==
    /\ buffers \in BufferChoices
    /\ Len(chan) <= buffers
    /\ w \in 0..Len(pipes)
    /\ r \in 0..Len(pipes)
    /\ nops \in 0..limits.ops
    /\ nreads \in 0..limits.reads

NumInit0 ==
    /\ nsize = 0
    /\ nstrlen = 0
    /\ navail = 0
    /\ nres = [t |-> "none", e |-> "nil"]
    /\ nn = 0

MainInit(b, lim) ==
    /\ limits = lim
    /\ buffers = b
    /\ perr = "nil"
    /\ chan = <<>>
    /\ chanClosed = FALSE
    /\ pipes = <<>>
    /\ w = 0
    /\ closed = FALSE
    /\ ppc = "idle"
    /\ parg = [force |-> FALSE, key |-> <<>>]
    /\ pres = "none"
    /\ nops = 0
    /\ nextByte = 1
    /\ r = 0
    /\ rkey = <<>>
    /\ key = <<>>
    /\ csize = 0
    /\ cacc = <<>>
    /\ cpc = "idle"
    /\ cres = [t |-> "none", kv |-> 0, key |-> <<>>, val |-> <<>>, e |-> "nil"]
    /\ nreads = 0
    /\ rdone = FALSE
    /\ out = <<>>
    /\ allFit = TRUE

InInit0 ==
    /\ inKVs = <<>>
    /\ inFed = 0
    /\ inCw = [prevKey |-> <<>>, streams |-> <<>>]
    /\ inClosed = FALSE
    /\ inOut = <<>>

DmInit0 ==
    /\ dmList = <<>>
    /\ dmMtu = 0
    /\ dmModules = <<>>
    /\ dmChunk = [Start |-> 0, Len |-> 0, Modules |-> <<>>]
    /\ dmOut = <<>>
    /\ dmPc = "start"

Tokens == {"A", "B"}

NoStates == [t \in {} |-> 0]

NoResult == [op |-> "none", valid |-> FALSE, name |-> "", impl |-> 0, err |-> "nil"]

SmInit0 ==
    /\ smDevmod = [t \in Tokens |-> [err |-> TRUE, modules |-> {}]]
    /\ states = NoStates
    /\ smRes = [t \in Tokens |-> NoResult]
    /\ smSolo = [t \in Tokens |-> [st |-> NoStates, res |-> NoResult]]
    /\ smStarted = [t \in Tokens |-> FALSE]
    /\ smPc = [t \in Tokens |-> "idle"]
    /\ smOp = [t \in Tokens |-> "none"]
    /\ smCrashed = FALSE
    /\ smN = 0

(* A JSON value: kind "dirs" is a list of rendezvous directives, "num" a   *)
(* number, "obj" an object; NoRow stands for no value at all.              *)
NoRow == [kind |-> "none", v |-> 0]

NoRequest == [method |-> "none", ct |-> [type |-> <<>>, params |-> ""], body |-> [form |-> "none", val |-> NoRow]]

RvInit0 ==
    /\ rvStore = NoRow
    /\ rvInfo = 0
    /\ rvReq = NoRequest
    /\ rvResp = [code |-> 0, val |-> NoRow]
    /\ rvPrev = [store |-> NoRow, info |-> 0]
    /\ rvLastOK = NoRow
    /\ rvN = 0

Guids == {1, 2}

NoSession == [phase |-> "none", i |-> 0]

ToInit0 ==
    /\ toWget = "good"
    /\ toVoucher = [g \in Guids |-> "orig"]
    /\ toBlob = [g \in Guids |-> FALSE]
    /\ toSession = [g \in Guids |-> NoSession]
    /\ toCred = [g \in Guids |-> "initial"]
    /\ toLast = [g \in Guids |-> "none"]
    /\ toFailedOnce = [g \in Guids |-> FALSE]

(* The message dispatch of the three servers: no session, nothing sent. *)
NoMsg == [msg |-> 0, reply |-> "none", prev |-> 0, expected |-> {}, state |-> "none"]

PrInit0 ==
    /\ prServer = "owner"
    /\ prSession = [t \in {"A", "B"} |-> [state |-> "none", expect |-> {}]]
    /\ prLast = [t \in {"A", "B"} |-> NoMsg]
    /\ prDead = [t \in {"A", "B"} |-> "no"]
    /\ prN = 0

(* The manufacturing server before any device initialization. *)
NoVoucherYet == [mfgPK |-> "none", hmac |-> 0, entries |-> <<>>]

DiInit0 ==
    /\ diState = [g \in {1, 2} |-> "AwaitAppStart"]
    /\ diHmac = [g \in {1, 2} |-> 0]
    /\ diVouchers = [g \in {1, 2} |-> NoVoucherYet]
    /\ diSupplied = [g \in {1, 2} |-> "none"]
    /\ diResold = [g \in {1, 2} |-> 0]

(* The cipher suite registry as package init leaves it; no TO2 session. *)
RegisterCipherSuite(reg, id, suite) ==
    [i \in DOMAIN reg \cup {id} |-> IF i = id THEN suite ELSE reg[i]]

NoCiphers == [i \in {} |-> 0]

kexInitWithCcm16 ==
    RegisterCipherSuite(NoCiphers, 30, [EncryptAlg |-> "AesCcm16_128_128", MacAlg |-> 0, PRFHash |-> "SHA256"])

kexInitCtrWithoutMac ==
    RegisterCipherSuite(NoCiphers, -17760704, [EncryptAlg |-> "A128CTR", MacAlg |-> 0, PRFHash |-> "SHA256"])

kexInit ==
    LET r1 == RegisterCipherSuite(NoCiphers, 1, [EncryptAlg |-> "A128GCM", MacAlg |-> 0, PRFHash |-> "SHA256"])
        r2 == RegisterCipherSuite(r1, 2, [EncryptAlg |-> "A192GCM", MacAlg |-> 0, PRFHash |-> "SHA256"])
        r3 == RegisterCipherSuite(r2, 3, [EncryptAlg |-> "A256GCM", MacAlg |-> 0, PRFHash |-> "SHA256"])
        r4 == RegisterCipherSuite(r3, -17760704, [EncryptAlg |-> "A128CTR", MacAlg |-> 5, PRFHash |-> "SHA256"])
        r5 == RegisterCipherSuite(r4, -17760703, [EncryptAlg |-> "A128CBC", MacAlg |-> 5, PRFHash |-> "SHA256"])
        r6 == RegisterCipherSuite(r5, -17760706, [EncryptAlg |-> "A256CTR", MacAlg |-> 6, PRFHash |-> "SHA384"])
    IN RegisterCipherSuite(r6, -17760705, [EncryptAlg |-> "A256CBC", MacAlg |-> 6, PRFHash |-> "SHA384"])

NoHello == [offer |-> <<>>, reply |-> "none", code |-> 0]

KxInit0 ==
    /\ ciphers = kexInit
    /\ kxWellFormed = TRUE
    /\ kxSession = [t \in {"A", "B"} |-> [state |-> "none", cipher |-> 0]]
    /\ kxReply = [t \in {"A", "B"} |-> NoHello]
    /\ kxN = 0

(* No command has been run. *)
NotLoaded == [done |-> FALSE, err |-> "", address |-> "", db |-> "", dbPass |-> "", key |-> ""]

NoFlags == [db |-> "unset", dbPass |-> "unset", key |-> "unset"]

NoFile ==
    [given |-> FALSE, readable |-> TRUE,
     vals |-> [address |-> "unset", db |-> "unset", dbPass |-> "unset", key |-> "unset"]]

CfgInit0 ==
    /\ cfgCmd = "owner"
    /\ cfgArgs = <<>>
    /\ cfgFlags = NoFlags
    /\ cfgFile = NoFile
    /\ cfgOut = NotLoaded

(* The fields of Devmod in the order the struct declares them, with the   *)
(* required mark of their tag.                                             *)
DevmodFields ==
    <<[name |-> "os", required |-> TRUE], [name |-> "arch", required |-> TRUE],
      [name |-> "version", required |-> TRUE], [name |-> "device", required |-> TRUE],
      [name |-> "sn", required |-> FALSE], [name |-> "pathsep", required |-> FALSE],
      [name |-> "sep", required |-> TRUE], [name |-> "nl", required |-> FALSE],
      [name |-> "tmp", required |-> FALSE], [name |-> "dir", required |-> FALSE],
      [name |-> "progenv", required |-> FALSE], [name |-> "bin", required |-> TRUE],
      [name |-> "mudurl", required |-> FALSE]>>

DevmodFieldNames == {DevmodFields[i].name : i \in 1..Len(DevmodFields)}

DwInit0 ==
    /\ dwFields = [n \in DevmodFieldNames |-> FALSE]
    /\ dwMod = 0
    /\ dwOut = <<>>
    /\ dwPc = "start"
    /\ dwClosed = "open"

(* bufferedPipe(): an empty buffer, no error, an open channel of capacity 1 *)
BpInit0 ==
    /\ bpBuf = <<>>
    /\ bpErr = "nil"
    /\ bpCh = [tokens |-> 0, closed |-> FALSE]
    /\ bpRpc = [at |-> "idle", p |-> 0]
    /\ bpRes = "nil"
    /\ bpRead = <<>>
    /\ bpWritten = <<>>

(* An UnchunkWriter as NewChunkOutPipe returns it. *)
UwInit0 ==
    /\ uwClosed = FALSE
    /\ uwW = FALSE
    /\ uwChan = [sends |-> 0, closes |-> 0, panic |-> FALSE]
    /\ uwLast = [op |-> "none", wasClosed |-> FALSE, res |-> "none",
                 before |-> [sends |-> 0, closes |-> 0, panic |-> FALSE]]
    /\ uwCalls = <<>>

RcInit0 ==
    /\ rcReqs = <<>>
    /\ rcPc = <<>>
    /\ rcMu = 0
    /\ rcData = <<>>
    /\ rcStore = NoRow
    /\ rcInfo = 0
    /\ rcResp = <<>>
    /\ rcSeen = <<>>

(* Every part of the model but g is at rest: nothing constructed, nothing  *)
(* called.                                                                 *)
Idle(g) ==
    /\ IF g = "main" THEN TRUE ELSE MainInit(0, [ops |-> 0, reads |-> 0])
    /\ IF g = "num" THEN TRUE ELSE NumInit0
    /\ IF g = "in" THEN TRUE ELSE InInit0
    /\ IF g = "dm" THEN TRUE ELSE DmInit0
    /\ IF g = "sm" THEN TRUE ELSE SmInit0
    /\ IF g = "rv" THEN TRUE ELSE RvInit0
    /\ IF g = "pr" THEN TRUE ELSE PrInit0
    /\ IF g = "to" THEN TRUE ELSE ToInit0
    /\ IF g = "kx" THEN TRUE ELSE KxInit0
    /\ IF g = "di" THEN TRUE ELSE DiInit0
    /\ IF g = "dw" THEN TRUE ELSE DwInit0
    /\ IF g = "cfg" THEN TRUE ELSE CfgInit0
    /\ IF g = "uw" THEN TRUE ELSE UwInit0
    /\ IF g = "bp" THEN TRUE ELSE BpInit0
    /\ IF g = "rc" THEN TRUE ELSE RcInit0

Init ==
    /\ \E b \in BufferChoices : MainInit(b, [ops |-> MaxOps, reads |-> MaxReads])
    /\ Idle("main")

----------------------------------------------------------------------------
(* The producer goroutine: UnchunkWriter *)

SendReaderUnbounded(id) ==
    /\ chan' = Append(chan, id)
    /\ UNCHANGED <<r, cpc>>

(* The send w.readers <- pr can complete: a free slot in a buffered        *)
(* channel, or a receiver waiting on an unbuffered one.                    *)
SendReader(id) ==
    \/ /\ buffers > 0
       /\ Len(chan) < buffers
       /\ chan' = Append(chan, id)
       /\ UNCHANGED <<r, cpc>>
    \/ /\ buffers = 0
       /\ cpc = "recv"
       /\ r' = id
       /\ cpc' = "key"
       /\ UNCHANGED chan

(* bufPipe.Write *)
BufPipeWrite(p, data, val) ==
    IF p.werr # "nil" THEN p
    ELSE [p EXCEPT !.buf = @ \o data, !.wr = @ \o val]

(* pipeWriter.Write(data) on w.w, up to the point where io.Pipe blocks.    *)
(* val is the part of data that is value bytes.                            *)
PipeWrite(data, val) ==
    LET p == pipes[w] IN
    IF p.kind = "buf"
    THEN /\ pipes' = [pipes EXCEPT ![w] = BufPipeWrite(p, data, val)]
         /\ pres' = IF p.werr # "nil" THEN "ErrClosedPipe" ELSE "nil"
         /\ ppc' = "idle"
    ELSE IF PipeDone(p)
         THEN /\ pres' = WriteErr(p)
              /\ ppc' = "idle"
              /\ UNCHANGED pipes
         ELSE /\ pipes' = [pipes EXCEPT ![w].buf = data, ![w].wr = @ \o val]
              /\ ppc' = "wblock"
              /\ pres' = "none"

(* nextPipe up to its channel send *)
nextPipe(force, k) ==
    /\ ppc = "idle"
    /\ nops < limits.ops
    /\ nops' = nops + 1
    /\ IF closed
       THEN /\ pres' = "ErrClosedPipe"
            /\ UNCHANGED <<pipes, ppc, parg>>
       ELSE /\ pipes' = Append(IF w # 0
                               THEN [pipes EXCEPT ![w] = WriterClose(@, "EOF")]
                               ELSE pipes,
                               NewPipe(PipeKind, k, IF force THEN "force" ELSE "kv"))
            /\ ppc' = "send"
            /\ parg' = [force |-> force, key |-> k]
            /\ pres' = "none"
    /\ UNCHANGED <<limits, perr, buffers, chan, chanClosed, w, closed, nextByte, r, rkey, key,
                   csize, cacc, cpc, cres, nreads, rdone, out, allFit, sideVars>>

NextServiceInfo(k) == nextPipe(FALSE, k)

ForceNewMessage == nextPipe(TRUE, <<>>)

(* nextPipe from its channel send on *)
nextPipeSend ==
    /\ ppc = "send"
    /\ LET id == Len(pipes) IN
       /\ SendReader(id)
       /\ w' = id
       /\ IF parg.force
          THEN /\ pipes' = [pipes EXCEPT ![id] = WriterClose(@, "EOF")]
               /\ ppc' = "idle"
               /\ pres' = "nil"
          ELSE /\ ppc' = "encode"
               /\ UNCHANGED <<pipes, pres>>
    /\ UNCHANGED <<limits, perr, buffers, chanClosed, closed, parg, nops, nextByte, rkey, key,
                   csize, cacc, cres, nreads, rdone, out, allFit, sideVars>>

(* NextServiceInfo: cbor.NewEncoder(w.w).Encode(moduleName:messageName) *)
EncodeKeyStep ==
    /\ ppc = "encode"
    /\ PipeWrite(EncodeKey(parg.key), <<>>)
    /\ UNCHANGED <<limits, perr, buffers, chan, chanClosed, w, closed, parg, nops, nextByte, r,
                   rkey, key, csize, cacc, cpc, cres, nreads, rdone, out, allFit,
                   sideVars>>

(* UnchunkWriter.Write of n bytes *)
Write(n) ==
    /\ ppc = "idle"
    /\ w # 0
    /\ nops < limits.ops
    /\ nops' = nops + 1
    /\ nextByte' = nextByte + n
    /\ LET data == [i \in 1..n |-> nextByte + i - 1] IN PipeWrite(data, data)
    /\ UNCHANGED <<limits, perr, buffers, chan, chanClosed, w, closed, parg, r, rkey, key, csize,
                   cacc, cpc, cres, nreads, rdone, out, allFit, sideVars>>

(* io.Pipe: a blocked Write returns once the reader took all of it, or     *)
(* with the reader's error once the reader closed the pipe.                *)
PipeWriteReturn ==
    /\ ppc = "wblock"
    /\ LET p == pipes[w] IN
       \/ /\ p.buf = <<>>
          /\ pres' = "nil"
          /\ UNCHANGED pipes
       \/ /\ p.buf # <<>>
          /\ PipeDone(p)
          /\ pres' = WriteErr(p)
          /\ pipes' = [pipes EXCEPT ![w].buf = <<>>]
    /\ ppc' = "idle"
    /\ UNCHANGED <<limits, perr, buffers, chan, chanClosed, w, closed, parg, nops, nextByte, r,
                   rkey, key, csize, cacc, cpc, cres, nreads, rdone, out, allFit,
                   sideVars>>

(* UnchunkWriter.Close *)
UnchunkWriterClose ==
    /\ ppc = "idle"
    /\ nops < limits.ops
    /\ nops' = nops + 1
    /\ IF closed
       THEN /\ pres' = "ErrClosedPipe"
            /\ UNCHANGED <<closed, chanClosed, pipes, w>>
       ELSE /\ closed' = TRUE
            /\ chanClosed' = TRUE
            /\ IF w = 0
               THEN /\ pipes' = Append(pipes,
                                   WriterClose(NewPipe("io", <<>>, "unsent"), "EOF"))
                    /\ w' = Len(pipes) + 1
               ELSE /\ pipes' = [pipes EXCEPT ![w] = WriterClose(@, "EOF")]
                    /\ UNCHANGED w
            /\ pres' = "nil"
    /\ UNCHANGED <<limits, perr, buffers, chan, ppc, parg, nextByte, r, rkey, key, csize, cacc,
                   cpc, cres, nreads, rdone, out, allFit, sideVars>>

(* UnchunkWriter.CloseWithError up to its channel send (w.w == nil), or    *)
(* all of it (w.w != nil)                                                  *)
CloseWithError ==
    /\ ppc = "idle"
    /\ nops < limits.ops
    /\ nops' = nops + 1
    /\ IF closed
       THEN /\ pres' = "ErrClosedPipe"
            /\ UNCHANGED <<closed, perr, chanClosed, pipes, ppc>>
       ELSE /\ closed' = TRUE
            /\ perr' = "E"
            /\ IF w = 0
               THEN /\ pipes' = Append(pipes, NewPipe("io", <<>>, "cwe"))
                    /\ ppc' = "cwesend"
                    /\ pres' = "none"
                    /\ UNCHANGED chanClosed
               ELSE /\ chanClosed' = TRUE
                    /\ pipes' = [pipes EXCEPT ![w] = WriterClose(@, "E")]
                    /\ pres' = "nil"
                    /\ UNCHANGED ppc
    /\ UNCHANGED <<limits, buffers, chan, w, parg, nextByte, r, rkey, key, csize, cacc,
                   cpc, cres, nreads, rdone, out, allFit, sideVars>>

(* UnchunkWriter.CloseWithError from its channel send on *)
CloseWithErrorSend ==
    /\ ppc = "cwesend"
    /\ LET id == Len(pipes) IN
       /\ SendReader(id)
       /\ w' = id
       /\ pipes' = [pipes EXCEPT ![id] = WriterClose(@, "E")]
    /\ chanClosed' = TRUE
    /\ ppc' = "idle"
    /\ pres' = "nil"
    /\ UNCHANGED <<limits, perr, buffers, closed, parg, nops, nextByte, rkey, key, csize, cacc,
                   cres, nreads, rdone, out, allFit, sideVars>>

----------------------------------------------------------------------------
(* The consumer goroutine: ChunkReader *)

FrameRawKey(id, k, val) ==
    [t |-> "frame", kv |-> id, key |-> rkey, val |-> val, e |-> "nil"]

(* &KV{Key: r.key, Val: val}; kv records which pipe it was read from *)
Frame(id, k, val) == [t |-> "frame", kv |-> id, key |-> k, val |-> val, e |-> "nil"]

(* at: "recv" the channel receive, "key" the key read, "size" the size     *)
(* check, "val" the value read.                                            *)
Failure(id, e, at) == [t |-> at, kv |-> id, key |-> <<>>, val |-> <<>>, e |-> e]

Return(ev) ==
    /\ out' = Append(out, ev)
    /\ cres' = ev
    /\ cpc' = "idle"

KeyErrorUnmapped(e) == e

(* The error ReadChunk returns when reading the key failed with e *)
KeyError(e) == IF e = "EOF" THEN "ErrSizeTooSmall" ELSE e

(* ReadChunk from the size check (pipe id, raw key rk) up to ReadFull *)
CheckSize(size, id, rk) ==
    IF TooSmall(size, Len(rk))
    THEN Return(Failure(id, "ErrSizeTooSmall", "size"))
    ELSE /\ cpc' = "val"
         /\ UNCHANGED <<out, cres>>

(* ReadChunk(size), up to its first blocking point *)
ReadChunk(size) ==
    /\ cpc = "idle"
    /\ ~rdone
    /\ nreads < limits.reads
    /\ nreads' = nreads + 1
    /\ csize' = size
    /\ cacc' = <<>>
    /\ allFit' = (allFit /\ size >= MinMTU)
    /\ IF r = 0
       THEN /\ cpc' = "recv"
            /\ UNCHANGED <<out, cres>>
       ELSE CheckSize(size, r, rkey)
    /\ UNCHANGED <<limits, perr, buffers, chan, chanClosed, pipes, w, closed, ppc, parg, pres,
                   nops, nextByte, r, rkey, key, rdone, sideVars>>

(* nextReader, open := <-r.readers *)
ReceiveReader ==
    /\ cpc = "recv"
    /\ \/ /\ chan # <<>>
          /\ r' = Head(chan)
          /\ chan' = Tail(chan)
          /\ cpc' = "key"
          /\ UNCHANGED <<out, cres>>
       \/ /\ chan = <<>>
          /\ chanClosed
          /\ Return(Failure(0, "EOF", "recv"))
          /\ UNCHANGED <<r, chan>>
    /\ UNCHANGED <<limits, perr, buffers, chanClosed, pipes, w, closed, ppc, parg, pres, nops,
                   nextByte, rkey, key, csize, cacc, nreads, rdone, allFit, sideVars>>

(* The key read failed with e after taking n bytes: close the pipe with    *)
(* the error, forget it, return the wrapped error.                         *)
KeyReadFails(n, e) ==
    /\ pipes' = [pipes EXCEPT ![r] =
                    [ReaderCloseWithError(@, e) EXCEPT !.buf = Drop(@, n),
                                                       !.dropped = TRUE]]
    /\ r' = 0
    /\ Return(Failure(r, KeyError(e), "key"))
    /\ UNCHANGED <<rkey, key>>

(* cbor.NewDecoder(io.LimitReader(r.r, size-7)).Decode(&r.rkey), then      *)
(* cbor.Unmarshal(r.rkey, &r.key).  A key cut short by the limit fails     *)
(* with io.EOF or io.ErrUnexpectedEOF, whichever the decoder reports.      *)
ReadKey ==
    /\ cpc = "key"
    /\ LET p == pipes[r]
           limit == KeyLimit(csize)
       IN \/ /\ limit = 0
             /\ KeyReadFails(0, "EOF")
          \/ /\ limit > 0
             /\ CanReadData(p)
             /\ ItemLen(p.buf) <= limit
             /\ rkey' = Take(p.buf, ItemLen(p.buf))
             /\ key' = DecodeKey(rkey')
             /\ pipes' = [pipes EXCEPT ![r].buf = Drop(@, ItemLen(p.buf))]
             /\ CheckSize(csize, r, rkey')
             /\ UNCHANGED r
          \/ /\ limit > 0
             /\ CanReadData(p)
             /\ ItemLen(p.buf) > limit
             /\ \E e \in {"EOF", "ErrUnexpectedEOF"} : KeyReadFails(limit, e)
          \/ /\ limit > 0
             /\ ~CanReadData(p)
             /\ CanReadErr(p)
             /\ KeyReadFails(0, ReadErr(p))
    /\ UNCHANGED <<limits, perr, buffers, chan, chanClosed, w, closed, ppc, parg, pres, nops,
                   nextByte, csize, cacc, nreads, rdone, allFit, sideVars>>

CollectReversed(acc, got) == got \o acc

(* io.ReadFull appends what each Read returns to what it has *)
Collect(acc, got) == acc \o got

(* io.ReadFull(r.r, r.buffer[:size-maxOverhead]) and what follows it *)
ReadFull ==
    /\ cpc = "val"
    /\ LET p == pipes[r]
           budget == Budget(csize, Len(rkey))
       IN \/ /\ CanReadData(p)
             /\ LET n == Min(Len(p.buf), budget - Len(cacc))
                    acc == Collect(cacc, Take(p.buf, n))
                IN /\ pipes' = [pipes EXCEPT ![r].buf = Drop(@, n)]
                   /\ IF Len(acc) = budget
                      THEN /\ Return(Frame(r, key, acc))
                           /\ cacc' = <<>>
                      ELSE /\ cacc' = acc
                           /\ UNCHANGED <<out, cres, cpc>>
                   /\ UNCHANGED r
          \/ /\ ~CanReadData(p)
             /\ CanReadErr(p)
             /\ ReadErr(p) = "EOF"
             /\ pipes' = [pipes EXCEPT ![r].eof = TRUE]
             /\ r' = 0
             /\ cacc' = <<>>
             /\ IF cacc = <<>>
                THEN /\ cpc' = "recv"
                     /\ UNCHANGED <<out, cres>>
                ELSE Return(Frame(r, key, cacc))
          \/ /\ ~CanReadData(p)
             /\ CanReadErr(p)
             /\ ReadErr(p) # "EOF"
             /\ pipes' = [pipes EXCEPT ![r] = ReaderCloseWithError(@, ReadErr(p))]
             /\ Return(Failure(r, ReadErr(p), "val"))
             /\ cacc' = <<>>
             /\ UNCHANGED r
    /\ UNCHANGED <<limits, perr, buffers, chan, chanClosed, w, closed, ppc, parg, pres, nops,
                   nextByte, rkey, key, csize, nreads, rdone, allFit, sideVars>>

(* ChunkReader.Close *)
ChunkReaderClose ==
    /\ cpc = "idle"
    /\ ~rdone
    /\ rdone' = TRUE
    /\ pipes' = IF r = 0 THEN pipes ELSE [pipes EXCEPT ![r] = ReaderClose(@)]
    /\ UNCHANGED <<limits, perr, buffers, chan, chanClosed, w, closed, ppc, parg, pres, nops,
                   nextByte, r, rkey, key, csize, cacc, cpc, cres, nreads, out,
                   allFit, sideVars>>

----------------------------------------------------------------------------
Producer ==
    \/ \E k \in Keys : NextServiceInfo(k)
    \/ ForceNewMessage
    \/ nextPipeSend
    \/ EncodeKeyStep
    \/ \E n \in WriteLens : Write(n)
    \/ PipeWriteReturn
    \/ UnchunkWriterClose
    \/ CloseWithError
    \/ CloseWithErrorSend

Consumer ==
    \/ \E size \in Sizes : ReadChunk(size)
    \/ ReceiveReader
    \/ ReadKey
    \/ ReadFull
    \/ ChunkReaderClose

Next == Producer \/ Consumer

Spec == Init /\ [][Next]_vars

----------------------------------------------------------------------------
(* SpecRT: the producer writes logical KVs and closes, the consumer reads  *)
(* at sizes that fit every key.                                            *)

MaxOpsRT == 5
MaxReadsRT == 4

FitSizes == {MinMTU, MinMTU + 1}

InitRT ==
    /\ \E b \in BufferChoices : MainInit(b, [ops |-> MaxOpsRT, reads |-> MaxReadsRT])
    /\ Idle("main")

NextRT ==
    \/ \E k \in Keys : NextServiceInfo(k)
    \/ nextPipeSend
    \/ EncodeKeyStep
    \/ \E n \in WriteLens : Write(n)
    \/ PipeWriteReturn
    \/ UnchunkWriterClose
    \/ \E size \in FitSizes : ReadChunk(size)
    \/ ReceiveReader
    \/ ReadKey
    \/ ReadFull

SpecRT == InitRT /\ [][NextRT]_vars

----------------------------------------------------------------------------
(* SpecNum: ReadChunk on a pipe that holds a key of nstrlen characters and *)
(* navail value bytes before its EOF, called with size nsize.              *)

NumSizes == (0..NumMaxSize) \cup ((Uint16 - 16)..(Uint16 - 1))
NumKeyLens == {1, 4, 23, 24, 255, 256}
NumAvails == {0, 1, 23, 24, 255, 256, Uint16}

InitNum ==
    /\ Idle("num")
    /\ nsize \in NumSizes
    /\ nstrlen \in NumKeyLens
    /\ navail \in NumAvails
    /\ nres = [t |-> "none", e |-> "nil"]
    /\ nn = 0

(* One call of ReadChunk(nsize) with r.r == nil: the key read under the    *)
(* limit, the size check, the value read.  "next" stands for the call      *)
(* going on to the next reader when the value is empty.                    *)
ReadChunkSizes ==
    /\ nres.t = "none"
    /\ LET klen == EncLen(nstrlen) IN
       IF klen > KeyLimit(nsize)
       THEN /\ \E e \in {"EOF", "ErrUnexpectedEOF"} :
                  nres' = [t |-> "key", e |-> KeyError(e)]
            /\ nn' = 0
       ELSE IF TooSmall(nsize, klen)
       THEN /\ nres' = [t |-> "size", e |-> "ErrSizeTooSmall"]
            /\ nn' = 0
       ELSE /\ nn' = Min(navail, Budget(nsize, klen))
            /\ nres' = [t |-> IF nn' = 0 THEN "next" ELSE "frame", e |-> "nil"]
    /\ UNCHANGED <<notNum, nsize, nstrlen, navail>>

NextNum == ReadChunkSizes

SpecNum == InitNum /\ [][NextNum]_vars

----------------------------------------------------------------------------
(* The chunk-in side (NewChunkInPipe), fed one frame after the other: the  *)
(* bytes each pipe handed to UnchunkReader receives.                       *)

ChunkWriterInit == [prevKey |-> <<>>, streams |-> <<>>]

WriteChunkAlwaysNew(cw, kv) ==
    [prevKey |-> kv.key,
     streams |-> Append(cw.streams, EncodeKey(kv.key) \o kv.val)]

(* ChunkWriter.WriteChunk *)
WriteChunk(cw, kv) ==
    IF kv.key # cw.prevKey
    THEN [prevKey |-> kv.key,
          streams |-> Append(cw.streams, EncodeKey(kv.key) \o kv.val)]
    ELSE [cw EXCEPT !.streams[Len(cw.streams)] = @ \o kv.val]

RECURSIVE WriteChunks(_, _)
WriteChunks(cw, frames) ==
    IF frames = <<>> THEN cw
    ELSE WriteChunks(WriteChunk(cw, Head(frames)), Tail(frames))

UnchunkNextServiceInfoKeepKey(stream) ==
    [key |-> DecodeKey(Take(stream, ItemLen(stream))), val |-> stream]

(* UnchunkReader.NextServiceInfo on one pipe, and the pipe read to its end *)
UnchunkNextServiceInfo(stream) ==
    [key |-> DecodeKey(Take(stream, ItemLen(stream))),
     val |-> Drop(stream, ItemLen(stream))]

Unchunked(frames) ==
    LET streams == WriteChunks(ChunkWriterInit, frames).streams
    IN [i \in 1..Len(streams) |-> UnchunkNextServiceInfo(streams[i])]

----------------------------------------------------------------------------
(* What was written and what was read *)

IsFrame(ev) == ev.t = "frame"

Frames == SelectSeq(out, IsFrame)

RECURSIVE FrameValsOf(_, _)
FrameValsOf(frames, id) ==
    IF frames = <<>> THEN <<>>
    ELSE (IF Head(frames).kv = id THEN Head(frames).val ELSE <<>>)
         \o FrameValsOf(Tail(frames), id)

(* The values of the frames read from pipe id, concatenated in order *)
FrameVals(id) == FrameValsOf(Frames, id)

NumFrames(id) == Cardinality({i \in 1..Len(Frames) : Frames[i].kv = id})

IsPrefix(a, b) == Len(a) <= Len(b) /\ a = Take(b, Len(a))

PipeIds == 1..Len(pipes)

KVIds == {id \in PipeIds : pipes[id].role = "kv"}

(* The logical KVs the producer wrote, in NextServiceInfo order *)
RECURSIVE WrittenFrom(_)
WrittenFrom(id) ==
    IF id > Len(pipes) THEN <<>>
    ELSE (IF pipes[id].role = "kv"
          THEN <<[key |-> pipes[id].key, val |-> pipes[id].wr]>>
          ELSE <<>>) \o WrittenFrom(id + 1)

Written == WrittenFrom(1)

RECURSIVE SumLen(_)
SumLen(id) == IF id = 0 THEN 0 ELSE Len(pipes[id].buf) + SumLen(id - 1)

(* Bytes written to pipes and not yet read *)
Unread == SumLen(Len(pipes))

(* The consumer got io.EOF from its last ReadChunk *)
GotEOF == cpc = "idle" /\ cres.e = "EOF"

----------------------------------------------------------------------------
FrameFitsSize ==
    nres.t = "frame" => FrameLen(EncLen(nstrlen), nn) <= nsize

FrameFitsSizeWitness ==
    /\ nres.t = "frame"
    /\ nn >= TwoByteLen
    /\ FrameLen(EncLen(nstrlen), nn) = nsize

KeyWhole ==
    /\ \A i \in 1..Len(Frames) :
          /\ Frames[i].kv \in KVIds
          /\ Frames[i].key = pipes[Frames[i].kv].key
    /\ \A id \in PipeIds : pipes[id].eof => FrameVals(id) = pipes[id].wr

KeyWholeWitness ==
    \E id \in KVIds : pipes[id].eof /\ NumFrames(id) >= 2

(* C5: each ForceNewMessage makes exactly one ReadChunk return             *)
(* ErrSizeTooSmall, after every result for the KVs written before it and   *)
(* before every result for the KVs written after it; the KVs before it     *)
(* that the reader did not discard were delivered whole.                   *)
ResultsFor(id) == {i \in 1..Len(out) : out[i].kv = id}

ReaderPast(id) == r > id \/ GotEOF \/ \E i \in 1..Len(out) : out[i].kv > id

ForceOnce ==
    \A id \in PipeIds : pipes[id].role = "force" =>
        /\ Cardinality(ResultsFor(id)) <= 1
        /\ ReaderPast(id) => ResultsFor(id) # {}
        /\ \A i \in ResultsFor(id) :
              /\ out[i].t = "key"
              /\ out[i].e = "ErrSizeTooSmall"
              /\ \A j \in 1..Len(out) :
                    /\ out[j].kv \in 1..(id - 1) => j < i
                    /\ out[j].kv > id => j > i
              /\ \A k \in KVIds :
                    k < id => pipes[k].dropped \/ FrameVals(k) = pipes[k].wr

ForceOnceWitness ==
    \E id \in PipeIds :
        /\ pipes[id].role = "force"
        /\ \E i \in ResultsFor(id) : \E j \in 1..Len(out) :
              j > i /\ out[j].t = "frame" /\ out[j].kv > id

(* C6: the data written and not yet read is bounded, and a producer at the *)
(* bound blocks until the consumer reads.                                  *)
(* As claimed, with the bound at one key and one Write for each of the     *)
(* buffers + 1 pipes that can be outstanding: *)
UnreadBounded ==
    Unread <= (buffers + 1) * (SetMax({Len(EncodeKey(k)) : k \in Keys})
                               + SetMax(WriteLens))

(* As amended: the readers channel holds at most buffers pipes, and on an  *)
(* unbuffered pipe (io.Pipe) unread bytes exist only while the producer is *)
(* blocked in the Write of them; a bufPipe takes any number of bytes.      *)
QueueBounded ==
    /\ Len(chan) <= buffers
    /\ \A id \in PipeIds :
          (pipes[id].kind = "io" /\ pipes[id].buf # <<>>)
          => (w = id /\ ppc = "wblock")
    /\ buffers = 0 => Unread <= SetMax({Len(EncodeKey(k)) : k \in Keys} \cup WriteLens)

QueueBoundedWitness ==
    /\ buffers > 0
    /\ ppc = "send"
    /\ Len(chan) = buffers
    /\ Unread > SetMax(WriteLens)

(* C7: after CloseWithError(err) a consumer that keeps calling ReadChunk   *)
(* gets an error wrapping err and does not get io.EOF instead of it.       *)
CloseWithErrorSeen ==
    (perr = "E" /\ allFit /\ ~rdone /\ GotEOF)
    => \E i \in 1..Len(out) : out[i].e = "E"

(* C8: once ChunkReader.Close has been called, no UnchunkWriter operation  *)
(* blocks forever.                                                         *)
ProducerStuck ==
    \/ /\ ppc \in {"send", "cwesend"}
       /\ ~(buffers > 0 /\ Len(chan) < buffers)
       /\ ~(buffers = 0 /\ cpc = "recv")
    \/ /\ ppc = "wblock"
       /\ pipes[w].buf # <<>>
       /\ ~PipeDone(pipes[w])

WriterNeverStuck == rdone => ~ProducerStuck

(* C9: after UnchunkWriter.Close the consumer gets io.EOF only when every  *)
(* byte written has been delivered in a frame, and after the first io.EOF  *)
(* only io.EOF.                                                            *)
EOFAfterAllData ==
    /\ (closed /\ perr = "nil" /\ ~rdone /\ GotEOF)
       => \A id \in KVIds : FrameVals(id) = pipes[id].wr
    /\ \A i, j \in 1..Len(out) : (i < j /\ out[i].e = "EOF") => out[j].e = "EOF"

(* C10: ReadChunk(size) returns ErrSizeTooSmall whenever the budget left   *)
(* for the value after the overhead is too small, or the key does not fit. *)
KeyFits == nsize < MinOverhead \/ EncLen(nstrlen) <= nsize - MinOverhead

ValueBudget == nsize - MaxOverhead(nsize, EncLen(nstrlen))

(* As claimed, too small being less than 24 bytes: *)
SizeTooSmallBelow24 ==
    (nres.t # "none" /\ (ValueBudget < OneByteLen \/ ~KeyFits))
    => nres.e = "ErrSizeTooSmall"

(* As amended: too small is no byte at all (a budget of 1..23 bytes gives  *)
(* a frame), and a key that does not fit fails the key read, with          *)
(* ErrSizeTooSmall where the decoder reports io.EOF.                       *)
SizeTooSmallAtZero ==
    nres.t # "none" =>
        /\ (KeyFits /\ ValueBudget <= 0)
           => nres = [t |-> "size", e |-> "ErrSizeTooSmall"]
        /\ (KeyFits /\ ValueBudget > 0) => nres.t \in {"frame", "next"}
        /\ ~KeyFits => (nres.t = "key" /\ nres.e \in {"ErrSizeTooSmall", "ErrUnexpectedEOF"})

SizeTooSmallAtZeroWitness ==
    /\ nres = [t |-> "size", e |-> "ErrSizeTooSmall"]
    /\ ValueBudget = 0

(* C11: ReadChunk(size) called with size equal to the length of the       *)
(* encoded key of the pending KV plus 7.                                   *)
SizeIsKeyPlus7 == nsize = EncLen(nstrlen) + MinOverhead

(* As claimed, the call returns ErrSizeTooSmall and no frame: *)
SizeTooSmallAtKeyPlus7 ==
    (nres.t # "none" /\ SizeIsKeyPlus7) => nres.e = "ErrSizeTooSmall"

(* As amended: the key is read whole, 5 bytes are left for the value, and  *)
(* the call returns a frame with up to 5 value bytes when the KV has any   *)
(* (with none it goes on to the next KV); it never fails.                  *)
FrameAtKeyPlus7 ==
    (nres.t # "none" /\ SizeIsKeyPlus7) =>
        /\ nres.e = "nil"
        /\ ValueBudget = 5
        /\ nn = Min(navail, 5)
        /\ nres.t = (IF navail = 0 THEN "next" ELSE "frame")

FrameAtKeyPlus7Witness ==
    /\ SizeIsKeyPlus7
    /\ nres.t = "frame"
    /\ nn = 5
    /\ navail > 5

----------------------------------------------------------------------------
(* SpecIn: the chunk-in pipe (NewChunkInPipe).  The sender produced the    *)
(* logical KVs inKVs, each cut into nf frames of one numbered byte; the    *)
(* frames are passed to WriteChunk in order, then the writer is closed;    *)
(* the reader takes each pipe and reads it to its end.                     *)

MaxInKVs == 3
MaxInFrames == 2

InKVFrames(kv, base) == [j \in 1..kv.nf |-> [key |-> kv.key, val |-> <<base + j>>]]

RECURSIVE InFramesFrom(_, _, _)
InFramesFrom(kvs, i, base) ==
    IF i > Len(kvs) THEN <<>>
    ELSE InKVFrames(kvs[i], base) \o InFramesFrom(kvs, i + 1, base + kvs[i].nf)

(* The frames in the order the sender emitted them *)
InFrames == InFramesFrom(inKVs, 1, 0)

RECURSIVE InSentFrom(_, _, _)
InSentFrom(kvs, i, base) ==
    IF i > Len(kvs) THEN <<>>
    ELSE <<[key |-> kvs[i].key, val |-> [j \in 1..kvs[i].nf |-> base + j]]>>
         \o InSentFrom(kvs, i + 1, base + kvs[i].nf)

(* The logical KVs the sender produced, each with the bytes of its frames *)
InSent == InSentFrom(inKVs, 1, 0)

InitIn ==
    /\ Idle("in")
    /\ inKVs \in UNION {[1..n -> [key : Keys, nf : 1..MaxInFrames]] : n \in 1..MaxInKVs}
    /\ inFed = 0
    /\ inCw = ChunkWriterInit
    /\ inClosed = FALSE
    /\ inOut = <<>>

ChunkWriterWriteChunk ==
    /\ ~inClosed
    /\ inFed < Len(InFrames)
    /\ inFed' = inFed + 1
    /\ inCw' = WriteChunk(inCw, InFrames[inFed + 1])
    /\ UNCHANGED <<notIn, inKVs, inClosed, inOut>>

ChunkWriterClose ==
    /\ ~inClosed
    /\ inFed = Len(InFrames)
    /\ inClosed' = TRUE
    /\ UNCHANGED <<notIn, inKVs, inFed, inCw, inOut>>

(* NextServiceInfo and the reads of the pipe it returned up to its EOF,    *)
(* which comes when the writer closes the pipe: at the next pipe or at     *)
(* Close.                                                                  *)
UnchunkReaderNextServiceInfo ==
    LET i == Len(inOut) + 1 IN
    /\ i <= Len(inCw.streams)
    /\ i < Len(inCw.streams) \/ inClosed
    /\ inOut' = Append(inOut, UnchunkNextServiceInfo(inCw.streams[i]))
    /\ UNCHANGED <<notIn, inKVs, inFed, inCw, inClosed>>

NextIn == ChunkWriterWriteChunk \/ ChunkWriterClose \/ UnchunkReaderNextServiceInfo

SpecIn == InitIn /\ [][NextIn]_vars

InDone == inClosed /\ Len(inOut) = Len(inCw.streams)

(* Consecutive KVs with the same key made one, their values concatenated *)
RECURSIVE MergeRuns(_)
MergeRuns(kvs) ==
    IF Len(kvs) <= 1 THEN kvs
    ELSE LET rest == MergeRuns(Tail(kvs)) IN
         IF Head(kvs).key = Head(rest).key
         THEN <<[key |-> Head(kvs).key, val |-> Head(kvs).val \o Head(rest).val]>>
              \o Tail(rest)
         ELSE <<Head(kvs)>> \o rest

----------------------------------------------------------------------------
(* SpecDm: Devmod.writeModuleMessages(modules, mtu, w).  A module name is  *)
(* a sequence of characters; Devmod.Write always passes at least one name. *)

MaxModules == 4

DevmodModulesKeyLen == 14

ModuleNames == {<<1>>, <<2, 2, 2>>, <<3, 3, 3, 3, 3, 3>>}
DmMtus == {0, 20, 22, 24, 26, 27, 31, 40, 41}

RECURSIVE NamesEncLen(_)
NamesEncLen(names) ==
    IF names = <<>> THEN 0 ELSE EncLen(Len(Head(names))) + NamesEncLen(Tail(names))

(* DevmodModulesChunk.MarshalCBOR: the array [Start, Len, names...] *)
ChunkEncLen(chunk) ==
    HeadLen(2 + Len(chunk.Modules)) + HeadLen(chunk.Start) + HeadLen(chunk.Len)
    + NamesEncLen(chunk.Modules)

(* Encoded length of [][]any{{key, chunk}} *)
ServiceInfoSize(chunk) == 1 + 1 + EncLen(DevmodModulesKeyLen) + ChunkEncLen(chunk)

InitDm ==
    /\ Idle("dm")
    /\ dmList \in UNION {[1..n -> ModuleNames] : n \in 1..MaxModules}
    /\ dmMtu \in DmMtus
    /\ dmModules = dmList
    /\ dmChunk = [Start |-> 0, Len |-> 0, Modules |-> <<>>]
    /\ dmOut = <<>>
    /\ dmPc = "start"

(* writeChunk: NextServiceInfo("devmod", "modules") and the chunk encoded *)
writeChunk(chunk) == Append(dmOut, [name |-> "modules", val |-> chunk])

(* devmod:nummodules, then ForceNewMessage *)
WriteNumModules ==
    /\ dmPc = "start"
    /\ dmOut' = dmOut \o <<[name |-> "nummodules", val |-> Len(dmModules)],
                           [name |-> "force", val |-> 0]>>
    /\ dmPc' = "loop"
    /\ UNCHANGED <<notDm, dmList, dmMtu, dmModules, dmChunk>>

AddModule(chunk, name) ==
    [chunk EXCEPT !.Len = @ + 1, !.Modules = Append(@, name)]

BackOutNothing(chunk) == chunk

BackOut(chunk) ==
    [chunk EXCEPT !.Len = @ - 1, !.Modules = Take(@, Len(@) - 1)]

ResetChunkStartLen(chunk) == [Start |-> chunk.Len, Len |-> 0, Modules |-> <<>>]

ResetChunk(chunk) == [Start |-> chunk.Start + chunk.Len, Len |-> 0, Modules |-> <<>>]

(* One iteration of the loop: the name fits and is kept *)
ModuleFits ==
    /\ dmPc = "loop"
    /\ dmModules # <<>>
    /\ LET chunk == AddModule(dmChunk, Head(dmModules)) IN
       /\ ServiceInfoSize(chunk) <= dmMtu
       /\ dmChunk' = chunk
       /\ dmModules' = Tail(dmModules)
    /\ UNCHANGED <<notDm, dmList, dmMtu, dmOut, dmPc>>

(* One iteration of the loop: the MTU is exceeded *)
ModuleExceeds ==
    /\ dmPc = "loop"
    /\ dmModules # <<>>
    /\ LET chunk == AddModule(dmChunk, Head(dmModules)) IN
       /\ ServiceInfoSize(chunk) > dmMtu
       /\ IF Len(chunk.Modules) = 1
          THEN /\ dmPc' = "err"
               /\ dmChunk' = chunk
               /\ UNCHANGED dmOut
          ELSE /\ dmOut' = writeChunk(BackOut(chunk))
               /\ dmChunk' = ResetChunk(BackOut(chunk))
               /\ UNCHANGED dmPc
    /\ UNCHANGED <<notDm, dmList, dmMtu, dmModules>>

(* After the loop: the last chunk *)
WriteLastChunk ==
    /\ dmPc = "loop"
    /\ dmModules = <<>>
    /\ dmOut' = writeChunk(dmChunk)
    /\ dmPc' = "done"
    /\ UNCHANGED <<notDm, dmList, dmMtu, dmModules, dmChunk>>

NextDm == WriteNumModules \/ ModuleFits \/ ModuleExceeds \/ WriteLastChunk

SpecDm == InitDm /\ [][NextDm]_vars

IsModulesMsg(m) == m.name = "modules"

(* The devmod:modules chunks written so far, in order *)
DmChunks == LET ms == SelectSeq(dmOut, IsModulesMsg) IN [i \in 1..Len(ms) |-> ms[i].val]

RECURSIVE DmNames(_)
DmNames(chunks) ==
    IF chunks = <<>> THEN <<>> ELSE Head(chunks).Modules \o DmNames(Tail(chunks))

(* C13: when writeModuleMessages succeeds it has written devmod:nummodules *)
(* equal to the length of the list, then devmod:modules chunks whose names *)
(* in order are the list, each with Len the number of its names and Start  *)
(* the number of names in all earlier chunks.                              *)
ModulesReproduced ==
    dmPc = "done" =>
        /\ dmOut[1] = [name |-> "nummodules", val |-> Len(dmList)]
        /\ \A i \in 2..Len(dmOut) : dmOut[i].name = "modules" \/ (i = 2 /\ dmOut[i].name = "force")
        /\ DmNames(DmChunks) = dmList
        /\ \A i \in 1..Len(DmChunks) :
              /\ DmChunks[i].Len = Len(DmChunks[i].Modules)
              /\ DmChunks[i].Start = Len(DmNames(Take(DmChunks, i - 1)))

ModulesReproducedWitness ==
    /\ dmPc = "done"
    /\ Len(DmChunks) = 3
    /\ Len(dmList) = 4
    /\ DmChunks[3].Start = 3

(* C14: every devmod:modules chunk written has an encoded ServiceInfo      *)
(* [[key, [start, len, names...]]] of at most mtu bytes.                   *)
ChunkFitsMtu ==
    \A i \in 1..Len(DmChunks) : ServiceInfoSize(DmChunks[i]) <= dmMtu

ChunkFitsMtuWitness ==
    /\ dmPc = "done"
    /\ Len(DmChunks) = 2
    /\ ServiceInfoSize(DmChunks[1]) = dmMtu
    /\ Len(DmChunks[1].Modules) = 2

----------------------------------------------------------------------------
(* SpecSm: moduleStateMachines of the owner server, called by the TO2      *)
(* responder with the token of the request, one call after the other.      *)
(* The owner is configured with one download, one upload, one wget and     *)
(* the date command.                                                       *)

MaxSmCalls == 5

OwnerModuleOrder == <<"fdo.download", "fdo.upload", "fdo.wget", "fdo.command">>

DevmodChoices ==
    {[err |-> TRUE, modules |-> {}],
     [err |-> FALSE, modules |-> {}],
     [err |-> FALSE, modules |-> {"fdo.download", "fdo.command"}],
     [err |-> FALSE, modules |-> {"fdo.download", "fdo.upload", "fdo.wget", "fdo.command"}]}

(* ownerModules(modules): the names the iterator yields, in order *)
RECURSIVE ownerModulesFrom(_, _)
ownerModulesFrom(modules, i) ==
    IF i > Len(OwnerModuleOrder) THEN <<>>
    ELSE (IF OwnerModuleOrder[i] \in modules THEN <<OwnerModuleOrder[i]>> ELSE <<>>)
         \o ownerModulesFrom(modules, i + 1)

ownerModules(modules) == ownerModulesFrom(modules, 1)

(* module.Next() of iter.Pull2: the next pair, or zero values at the end *)
PullNext(m) ==
    IF m.pos < Len(m.seq)
    THEN [m EXCEPT !.pos = @ + 1, !.Name = m.seq[m.pos + 1], !.Impl = m.pos + 1, !.valid = TRUE]
    ELSE [m EXCEPT !.pos = Len(m.seq) + 1, !.Name = "", !.Impl = 0, !.valid = FALSE]

MapPut(st, token, m) ==
    [t \in (DOMAIN st) \cup {token} |-> IF t = token THEN m ELSE st[t]]

MapDeleteAll(st, token) == NoStates

MapDelete(st, token) == [t \in (DOMAIN st) \ {token} |-> st[t]]

(* moduleStateMachines.Module *)
ModuleOn(st, token) ==
    IF token \notin DOMAIN st
    THEN [st |-> st,
          res |-> [op |-> "Module", valid |-> FALSE, name |-> "", impl |-> 0,
                   err |-> "NextModule not called"]]
    ELSE [st |-> st,
          res |-> [op |-> "Module", valid |-> FALSE, name |-> st[token].Name,
                   impl |-> st[token].Impl, err |-> "nil"]]

(* moduleStateMachines.NextModule *)
NextModuleOn(st, token) ==
    IF token \notin DOMAIN st /\ smDevmod[token].err
    THEN [st |-> st,
          res |-> [op |-> "NextModule", valid |-> FALSE, name |-> "", impl |-> 0,
                   err |-> "error getting devmod"]]
    ELSE LET module == IF token \in DOMAIN st THEN st[token]
                       ELSE [Name |-> "", Impl |-> 0, valid |-> FALSE, pos |-> 0,
                             seq |-> ownerModules(smDevmod[token].modules)]
             next == PullNext(module)
         IN [st |-> MapPut(st, token, next),
             res |-> [op |-> "NextModule", valid |-> next.valid, name |-> "", impl |-> 0,
                      err |-> "nil"]]

(* moduleStateMachines.CleanupModules *)
CleanupModulesOn(st, token) ==
    [st |-> IF token \in DOMAIN st THEN MapDelete(st, token) ELSE st,
     res |-> [op |-> "CleanupModules", valid |-> FALSE, name |-> "", impl |-> 0, err |-> "nil"]]

CallOn(op, st, token) ==
    IF op = "Module" THEN ModuleOn(st, token)
    ELSE IF op = "NextModule" THEN NextModuleOn(st, token)
    ELSE CleanupModulesOn(st, token)

StartedAfter(op, token, res) ==
    IF op = "NextModule" THEN smStarted[token] \/ res.err = "nil"
    ELSE IF op = "CleanupModules" THEN FALSE
    ELSE smStarted[token]

InitSm ==
    /\ Idle("sm")
    /\ smDevmod \in [Tokens -> DevmodChoices]
    /\ states = NoStates
    /\ smRes = [t \in Tokens |-> NoResult]
    /\ smSolo = [t \in Tokens |-> [st |-> NoStates, res |-> NoResult]]
    /\ smStarted = [t \in Tokens |-> FALSE]
    /\ smPc = [t \in Tokens |-> "idle"]
    /\ smOp = [t \in Tokens |-> "none"]
    /\ smCrashed = FALSE
    /\ smN = 0

(* One whole call made with the token of a request *)
Call(op, token) ==
    /\ smN < MaxSmCalls
    /\ smN' = smN + 1
    /\ LET c == CallOn(op, states, token)
           solo == CallOn(op, smSolo[token].st, token)
       IN /\ states' = c.st
          /\ smRes' = [smRes EXCEPT ![token] = c.res]
          /\ smSolo' = [smSolo EXCEPT ![token] = solo]
          /\ smStarted' = [smStarted EXCEPT ![token] = StartedAfter(op, token, c.res)]
    /\ UNCHANGED <<notSm, smDevmod, smPc, smOp, smCrashed>>

Module == \E token \in Tokens : Call("Module", token)

NextModule == \E token \in Tokens : Call("NextModule", token)

CleanupModules == \E token \in Tokens : Call("CleanupModules", token)

(* The owner process stops and serveOwner runs again on the same database: *)
(* states is made anew, the session store keeps what it held.              *)
Restart ==
    /\ smN < MaxSmCalls
    /\ smN' = smN + 1
    /\ states # NoStates
    /\ states' = NoStates
    /\ smSolo' = [t \in Tokens |-> [smSolo[t] EXCEPT !.st = NoStates]]
    /\ UNCHANGED <<notSm, smDevmod, smRes, smStarted, smPc, smOp, smCrashed>>

NextSm == Module \/ NextModule \/ CleanupModules \/ Restart

SpecSm == InitSm /\ [][NextSm]_vars

OnlyToken(st, token) == [t \in (DOMAIN st) \cap {token} |-> st[t]]

(* C15: what Module and NextModule return for a token, and what            *)
(* CleanupModules removes, depend only on the calls made with that token:  *)
(* they are what they would be had no call been made with another token.   *)
NotSharedAcrossTokens ==
    \A token \in Tokens :
        /\ smRes[token] = smSolo[token].res
        /\ OnlyToken(states, token) = smSolo[token].st

NotSharedAcrossTokensWitness ==
    /\ smRes["A"].op = "CleanupModules"
    /\ "A" \notin DOMAIN states
    /\ "B" \in DOMAIN states
    /\ states["B"].pos = 2
    /\ smRes["B"].op = "Module"
    /\ smRes["B"].name = "fdo.command"

(* C16: the position of a session's owner-module iterator is held by the   *)
(* session store, not by the process: a session that has called NextModule *)
(* and has not been cleaned up has its iterator, whatever happened to the  *)
(* process in between.                                                     *)
IteratorInSessionStore ==
    \A token \in Tokens : smStarted[token] => token \in DOMAIN states

----------------------------------------------------------------------------
(* SpecSmRace: the same calls made by requests the transport serves        *)
(* concurrently, one goroutine per request, one request at a time per      *)
(* token.  A call first looks its token up in states (a map read) and      *)
(* then, for NextModule without an entry and CleanupModules with one,      *)
(* changes the map (a map write).  No lock is taken anywhere.              *)

SmOps == {"Module", "NextModule", "CleanupModules"}

(* The request enters the call and starts the lookup s.states[token] *)
BeginLookup ==
    \E token \in Tokens, op \in SmOps :
        /\ ~smCrashed
        /\ smN < MaxSmCalls
        /\ smPc[token] = "idle"
        /\ smN' = smN + 1
        /\ smPc' = [smPc EXCEPT ![token] = "lookup"]
        /\ smOp' = [smOp EXCEPT ![token] = op]
        /\ UNCHANGED <<notSm, smDevmod, states, smRes, smSolo, smStarted, smCrashed>>

WritesMap(op, token) ==
    \/ op = "NextModule" /\ token \notin DOMAIN states /\ ~smDevmod[token].err
    \/ op = "CleanupModules" /\ token \in DOMAIN states

Finish(token) ==
    LET c == CallOn(smOp[token], states, token) IN
    /\ states' = c.st
    /\ smRes' = [smRes EXCEPT ![token] = c.res]
    /\ smStarted' = [smStarted EXCEPT ![token] = StartedAfter(smOp[token], token, c.res)]
    /\ smPc' = [smPc EXCEPT ![token] = "idle"]
    /\ smOp' = [smOp EXCEPT ![token] = "none"]

(* The lookup ends; a call that does not change the map returns *)
EndLookup ==
    \E token \in Tokens :
        /\ ~smCrashed
        /\ smPc[token] = "lookup"
        /\ IF WritesMap(smOp[token], token)
           THEN /\ smPc' = [smPc EXCEPT ![token] = "write"]
                /\ UNCHANGED <<states, smRes, smStarted, smOp>>
           ELSE Finish(token)
        /\ UNCHANGED <<notSm, smDevmod, smSolo, smCrashed, smN>>

(* s.states[token] = module, or delete(s.states, token), ends and the call *)
(* returns                                                                 *)
EndWrite ==
    \E token \in Tokens :
        /\ ~smCrashed
        /\ smPc[token] = "write"
        /\ Finish(token)
        /\ UNCHANGED <<notSm, smDevmod, smSolo, smCrashed, smN>>

Racing ==
    \E a, b \in Tokens :
        /\ a # b
        /\ smPc[a] = "write"
        /\ smPc[b] \in {"lookup", "write"}

(* The Go runtime may detect the concurrent map access and stop the        *)
(* process ("fatal error: concurrent map read and map write").             *)
FatalConcurrentMapAccess ==
    /\ ~smCrashed
    /\ Racing
    /\ smCrashed' = TRUE
    /\ UNCHANGED <<notSm, smDevmod, states, smRes, smSolo, smStarted, smPc, smOp, smN>>

NextSmRace == BeginLookup \/ EndLookup \/ EndWrite \/ FatalConcurrentMapAccess

SpecSmRace == InitSm /\ [][NextSmRace]_vars

(* C17: no two accesses to the states map made for different tokens        *)
(* overlap in time when at least one of them is a write.                   *)
NoConcurrentMapAccess == ~Racing

----------------------------------------------------------------------------
(* SpecRv: the /api/v1/rvinfo handler on a working database.  A            *)
(* Content-Type header is a media type and its parameters; the media type  *)
(* is a sequence of pieces, so that a media type can begin with another.   *)

MaxRequests == 3

StatusOK == 200
StatusCreated == 201
StatusBadRequest == 400
StatusNotFound == 404
StatusMethodNotAllowed == 405
StatusConflict == 409
StatusInternalServerError == 500

Methods == {"GET", "POST", "PUT", "DELETE"}

MediaTypes ==
    {<<"application/json">>, <<"text/plain">>, <<"application/json", "-patch+json">>,
     <<"application/xml">>, <<>>}

ContentTypes == {[type |-> t, params |-> q] : t \in MediaTypes, q \in {"", "; charset=utf-8"}}

RvValues == {[kind |-> "dirs", v |-> 1], [kind |-> "dirs", v |-> 2], [kind |-> "num", v |-> 7]}

(* A body is a JSON value as it stands ("raw"), the object {"value": val}  *)
(* ("wrapped"), or not JSON at all.                                        *)
Bodies ==
    {[form |-> f, val |-> x] : f \in {"raw", "wrapped"}, x \in RvValues}
    \cup {[form |-> "invalid", val |-> NoRow]}

(* strings.HasPrefix(contentType, p), p a media type of one piece *)
HasPrefix(ct, p) == Len(ct.type) >= 1 /\ ct.type[1] = p

(* contentType == "text/plain" *)
IsTextPlain(ct) == ct = [type |-> <<"text/plain">>, params |-> ""]

(* The object {"value": val} as a JSON value of its own *)
Obj(val) == [kind |-> "obj", v |-> val.v]

(* parseRequestBody *)
parseRequestBody(ct, body) ==
    IF ~HasPrefix(ct, "application/json") /\ ~HasPrefix(ct, "text/plain")
    THEN [ok |-> FALSE, val |-> NoRow]
    ELSE IF IsTextPlain(ct)
    THEN (IF body.form = "invalid" THEN [ok |-> FALSE, val |-> NoRow]
          ELSE IF body.form = "raw" THEN [ok |-> TRUE, val |-> body.val]
          ELSE [ok |-> TRUE, val |-> Obj(body.val)])
    ELSE (IF body.form = "wrapped" THEN [ok |-> TRUE, val |-> body.val]
          ELSE [ok |-> FALSE, val |-> NoRow])

(* rvinfo.RetrieveRvInfo: the row read and converted to directives; a      *)
(* value that is not a list of directives cannot be converted.             *)
RetrieveRvInfo(store, info) ==
    IF store.kind = "dirs" THEN [ok |-> TRUE, info |-> store.v]
    ELSE IF store.kind = "none" THEN [ok |-> TRUE, info |-> 0]
    ELSE [ok |-> FALSE, info |-> info]

Reply(store, info, code, val) ==
    [store |-> store, info |-> info, resp |-> [code |-> code, val |-> val]]

getRvData(store, info) ==
    IF store = NoRow THEN Reply(store, info, StatusNotFound, NoRow)
    ELSE Reply(store, info, StatusOK, store)

(* The common end of createRvData and updateRvData: the row is written,    *)
(* then *rvInfo is refreshed from it                                       *)
StoreAndRetrieve(val, info, code) ==
    LET rr == RetrieveRvInfo(val, info) IN
    IF rr.ok THEN Reply(val, rr.info, code, val)
    ELSE Reply(val, info, StatusInternalServerError, NoRow)

createRvDataInsertFirst(req, store, info) ==
    LET parsed == parseRequestBody(req.ct, req.body) IN
    IF ~parsed.ok THEN Reply(store, info, StatusBadRequest, NoRow)
    ELSE IF store # NoRow THEN Reply(parsed.val, info, StatusConflict, NoRow)
    ELSE StoreAndRetrieve(parsed.val, info, StatusCreated)

createRvData(req, store, info) ==
    LET parsed == parseRequestBody(req.ct, req.body) IN
    IF ~parsed.ok THEN Reply(store, info, StatusBadRequest, NoRow)
    ELSE IF store # NoRow THEN Reply(store, info, StatusConflict, NoRow)
    ELSE StoreAndRetrieve(parsed.val, info, StatusCreated)

updateRvData(req, store, info) ==
    LET parsed == parseRequestBody(req.ct, req.body) IN
    IF ~parsed.ok THEN Reply(store, info, StatusBadRequest, NoRow)
    ELSE IF store = NoRow THEN Reply(store, info, StatusNotFound, NoRow)
    ELSE StoreAndRetrieve(parsed.val, info, StatusOK)

Handle(req, store, info) ==
    IF req.method = "GET" THEN getRvData(store, info)
    ELSE IF req.method = "POST" THEN createRvData(req, store, info)
    ELSE IF req.method = "PUT" THEN updateRvData(req, store, info)
    ELSE Reply(store, info, StatusMethodNotAllowed, NoRow)

InitRv ==
    /\ Idle("rv")
    /\ RvInit0

RvInfoHandler ==
    \E method \in Methods, ct \in ContentTypes, body \in Bodies :
        LET req == [method |-> method, ct |-> ct, body |-> body]
            h == Handle(req, rvStore, rvInfo)
        IN /\ rvN < MaxRequests
           /\ rvN' = rvN + 1
           /\ rvReq' = req
           /\ rvPrev' = [store |-> rvStore, info |-> rvInfo]
           /\ rvStore' = h.store
           /\ rvInfo' = h.info
           /\ rvResp' = h.resp
           /\ rvLastOK' = IF \/ method = "POST" /\ h.resp.code = StatusCreated
                             \/ method = "PUT" /\ h.resp.code = StatusOK
                          THEN h.resp.val ELSE rvLastOK
           /\ UNCHANGED notRv

NextRv == RvInfoHandler

SpecRv == InitRv /\ [][NextRv]_vars

(* C18: GET returns the value of the most recent successful POST or PUT,   *)
(* and 404 before any successful POST.                                     *)
GetReturnsLastSuccessful ==
    rvReq.method = "GET" =>
        IF rvLastOK = NoRow THEN rvResp.code = StatusNotFound
        ELSE rvResp = [code |-> StatusOK, val |-> rvLastOK]

(* C19: a rejected request changes nothing.                                *)
RvParsed == parseRequestBody(rvReq.ct, rvReq.body)

RejectedUnchanged ==
    rvResp.code \in {StatusConflict, StatusNotFound, StatusMethodNotAllowed, StatusBadRequest}
    => (rvStore = rvPrev.store /\ rvInfo = rvPrev.info)

RejectedCodes ==
    /\ (rvReq.method = "POST" /\ RvParsed.ok /\ rvPrev.store # NoRow)
       => rvResp.code = StatusConflict
    /\ (rvReq.method = "PUT" /\ RvParsed.ok /\ rvPrev.store = NoRow)
       => rvResp.code = StatusNotFound
    /\ rvReq.method \notin {"none", "GET", "POST", "PUT"}
       => rvResp.code = StatusMethodNotAllowed

(* As claimed: a Content-Type whose media type is other than               *)
(* application/json or text/plain is answered 400.                         *)
RejectedAsClaimed ==
    /\ RejectedCodes
    /\ RejectedUnchanged
    /\ (rvReq.method \in {"POST", "PUT"}
        /\ rvReq.ct.type \notin {<<"application/json">>, <<"text/plain">>})
       => rvResp.code = StatusBadRequest

(* As amended: a Content-Type that does not begin with application/json or *)
(* text/plain is answered 400, and 409 and 404 are the answers to requests *)
(* whose body was parsed.                                                  *)
RejectedByPrefix ==
    /\ RejectedCodes
    /\ RejectedUnchanged
    /\ (rvReq.method \in {"POST", "PUT"}
        /\ ~HasPrefix(rvReq.ct, "application/json") /\ ~HasPrefix(rvReq.ct, "text/plain"))
       => rvResp.code = StatusBadRequest

RejectedByPrefixWitness ==
    /\ rvReq.method = "POST"
    /\ rvResp.code = StatusConflict
    /\ rvPrev.store.kind = "dirs"
    /\ rvStore = rvPrev.store
    /\ rvReq.body.val # rvStore

----------------------------------------------------------------------------
(* SpecTo: onboarding of devices whose vouchers the owner holds, as in     *)
(* test_wget_bad_url: TO0, then TO2 with one fdo.wget owner module whose   *)
(* URL can or cannot be fetched; the owner server can be stopped and       *)
(* started again with another URL on the same database.                    *)

NumEntries == 2

WgetUrls == {"good", "bad"}

InitTo ==
    /\ Idle("to")
    /\ toWget \in WgetUrls
    /\ toVoucher = [g \in Guids |-> "orig"]
    /\ toBlob = [g \in Guids |-> FALSE]
    /\ toSession = [g \in Guids |-> NoSession]
    /\ toCred = [g \in Guids |-> "initial"]
    /\ toLast = [g \in Guids |-> "none"]
    /\ toFailedOnce = [g \in Guids |-> FALSE]

(* run_to0: the owner registers its address for a voucher it holds *)
RunTO0 ==
    \E g \in Guids :
        /\ toVoucher[g] = "orig"
        /\ ~toBlob[g]
        /\ toBlob' = [toBlob EXCEPT ![g] = TRUE]
        /\ UNCHANGED <<notTo, toWget, toVoucher, toSession, toCred, toLast, toFailedOnce>>

(* run_fido_device_onboard begins: TO1, then HelloDevice / ProveOVHdr *)
HelloDevice ==
    \E g \in Guids :
        /\ toSession[g].phase = "none"
        /\ toCred[g] = "initial"
        /\ toBlob[g]
        /\ toVoucher[g] = "orig"
        /\ toSession' = [toSession EXCEPT ![g] = [phase |-> "replay", i |-> 0]]
        /\ toLast' = [toLast EXCEPT ![g] = "running"]
        /\ UNCHANGED <<notTo, toWget, toVoucher, toBlob, toCred, toFailedOnce>>

(* GetOVNextEntry / OVNextEntry, then ProveDevice / SetupDevice *)
VoucherReplay ==
    \E g \in Guids :
        /\ toSession[g].phase = "replay"
        /\ toSession' = [toSession EXCEPT ![g] =
                            IF toSession[g].i + 1 < NumEntries
                            THEN [phase |-> "replay", i |-> toSession[g].i + 1]
                            ELSE [phase |-> "serviceinfo", i |-> 0]]
        /\ UNCHANGED <<notTo, toWget, toVoucher, toBlob, toCred, toLast, toFailedOnce>>

(* The ServiceInfo loop reaches the fdo.wget module and the device fetches *)
(* the URL                                                                 *)
ServiceInfoWget ==
    \E g \in Guids :
        /\ toSession[g] = [phase |-> "serviceinfo", i |-> 0]
        /\ toWget = "good"
        /\ toSession' = [toSession EXCEPT ![g] = [phase |-> "serviceinfo", i |-> 1]]
        /\ UNCHANGED <<notTo, toWget, toVoucher, toBlob, toCred, toLast, toFailedOnce>>

(* What a torn down session leaves of the stored voucher *)
TearDown(voucher) == voucher

(* The fetch fails: ErrorMsg, the session is deleted *)
ServiceInfoFails ==
    \E g \in Guids :
        /\ toSession[g] = [phase |-> "serviceinfo", i |-> 0]
        /\ toWget = "bad"
        /\ toSession' = [toSession EXCEPT ![g] = NoSession]
        /\ toVoucher' = [toVoucher EXCEPT ![g] = TearDown(@)]
        /\ toLast' = [toLast EXCEPT ![g] = "failed"]
        /\ toFailedOnce' = [toFailedOnce EXCEPT ![g] = TRUE]
        /\ UNCHANGED <<notTo, toWget, toBlob, toCred>>

(* Done / Done2: the voucher is replaced, the device keeps its new         *)
(* credential                                                              *)
Done2 ==
    \E g \in Guids :
        /\ toSession[g] = [phase |-> "serviceinfo", i |-> 1]
        /\ toSession' = [toSession EXCEPT ![g] = NoSession]
        /\ toVoucher' = [toVoucher EXCEPT ![g] = "extended"]
        /\ toCred' = [toCred EXCEPT ![g] = "replaced"]
        /\ toLast' = [toLast EXCEPT ![g] = "done"]
        /\ UNCHANGED <<notTo, toWget, toBlob, toFailedOnce>>

RestartVouchersLost(vouchers) == [g \in Guids |-> "absent"]

(* serveOwner is given the database the stopped server used *)
RestartVouchers(vouchers) == vouchers

(* wget_stop_owner_server, wget_start_owner_server --command-wget url,     *)
(* with no onboarding in progress                                          *)
RestartOwner ==
    \E url \in WgetUrls :
        /\ \A g \in Guids : toSession[g].phase = "none"
        /\ url # toWget
        /\ toWget' = url
        /\ toVoucher' = RestartVouchers(toVoucher)
        /\ UNCHANGED <<notTo, toBlob, toSession, toCred, toLast, toFailedOnce>>

NextTo ==
    \/ RunTO0
    \/ HelloDevice
    \/ VoucherReplay
    \/ ServiceInfoWget
    \/ ServiceInfoFails
    \/ Done2
    \/ RestartOwner

SpecTo == InitTo /\ [][NextTo]_vars

MaxMsgs == 4

Servers == {"manufacturing", "rendezvous", "owner"}

RespondersAll(server) == {"DI", "TO0", "TO1", "TO2"}

(* The responders each server's handler is built with. *)
Responders(server) ==
    CASE server = "manufacturing" -> {"DI"}
      [] server = "rendezvous" -> {"TO0", "TO1"}
      [] server = "owner" -> {"TO2"}

(* Message types a client may send: the requests of the four protocols, a *)
(* reply type (11) and a type no protocol knows (99).                      *)
MsgTypes == {10, 12, 20, 22, 30, 32, 60, 62, 64, 66, 68, 70, 11, 99}

ProtocolOf(m) ==
    CASE m \in {10, 12} -> "DI"
      [] m \in {20, 22} -> "TO0"
      [] m \in {30, 32} -> "TO1"
      [] m \in {60, 62, 64, 66, 68, 70} -> "TO2"
      [] OTHER -> "unknown"

(* The message that opens a session of its protocol. *)
IsFirstMsg(m) == m \in {10, 20, 30, 60}

(* The message that completes its protocol. *)
IsLastMsg(m) == m \in {12, 22, 32, 70}

(* The types the responder's state expects after accepting m: the next    *)
(* request, or the same again where the protocol loops (voucher entries,  *)
(* service info).                                                          *)
ExpectAfter(m) ==
    CASE m \in {10, 20, 30, 60} -> {m + 2}
      [] m = 62 -> {62, 64}
      [] m = 64 -> {66}
      [] m = 66 -> {68}
      [] m = 68 -> {68, 70}
      [] OTHER -> {}

SessionKeep(sess) == sess

(* The session ends on a responder error. *)
SessionDelete(sess) == [state |-> "deleted", expect |-> {}]

(* The handler's answer to message m on a session: the session after it   *)
(* and the reply.                                                          *)
Dispatch(server, sess, m) ==
    IF sess.state = "none"
    THEN IF IsFirstMsg(m) /\ ProtocolOf(m) \in Responders(server)
         THEN [sess |-> [state |-> "open", expect |-> ExpectAfter(m)], reply |-> "ok"]
         ELSE [sess |-> sess, reply |-> "ErrorMsg"]
    ELSE IF sess.state = "open"
    THEN IF m \in sess.expect /\ ProtocolOf(m) \in Responders(server)
         THEN IF IsLastMsg(m)
              THEN [sess |-> [state |-> "done", expect |-> {}], reply |-> "ok"]
              ELSE [sess |-> [state |-> "open", expect |-> ExpectAfter(m)], reply |-> "ok"]
         ELSE [sess |-> SessionDelete(sess), reply |-> "ErrorMsg"]
    ELSE [sess |-> sess, reply |-> "ErrorMsg"]

(* A client sends message m with token t. *)
ServeHTTP(t, m) ==
    /\ prN < MaxMsgs
    /\ LET d == Dispatch(prServer, prSession[t], m)
       IN /\ prSession' = [prSession EXCEPT ![t] = d.sess]
          /\ prLast' = [prLast EXCEPT ![t] =
                           [msg |-> m, reply |-> d.reply, prev |-> m,
                            expected |-> prSession[t].expect,
                            state |-> prSession[t].state]]
          /\ prDead' = [prDead EXCEPT ![t] =
                           IF @ = "no" /\ prSession[t].state = "open" /\ d.reply = "ErrorMsg"
                           THEN "ended"
                           ELSE IF @ = "ended" /\ d.reply = "ok" THEN "accepted" ELSE @]
    /\ prN' = prN + 1
    /\ UNCHANGED <<notPr, prServer>>

SendMsg == \E t \in Tokens, m \in MsgTypes : ServeHTTP(t, m)

PrInit ==
    /\ Idle("pr")
    /\ prServer \in Servers
    /\ prSession = [t \in Tokens |-> [state |-> "none", expect |-> {}]]
    /\ prLast = [t \in Tokens |-> NoMsg]
    /\ prDead = [t \in Tokens |-> "no"]
    /\ prN = 0

PrNext == SendMsg

SpecPr == PrInit /\ [][PrNext]_vars

MaxExtends == 2

PKs == {"mfgKey", "ownerCert", "K1"}

Hmacs == {1, 2}

(* extend(V, newOwnerPK, signer): one more entry at the tail, chained to   *)
(* what precedes it.                                                       *)
ExtendVoucher(ov, signer, nextOwner) ==
    [ov EXCEPT !.entries =
        Append(@, [signer |-> signer, newOwnerPK |-> nextOwner, prev |-> Len(@)])]

(* The walk of validateChain from the header to the tail: the key that    *)
(* must have signed entry i. *)
ExpectedSignerPK(ov, i) ==
    IF i = 1 THEN ov.mfgPK ELSE ov.entries[i - 1].newOwnerPK

validateChain(ov) ==
    \A i \in 1..Len(ov.entries) :
        /\ ov.entries[i].signer = ExpectedSignerPK(ov, i)
        /\ ov.entries[i].prev = i - 1

currentOwnerPK(ov) == ExpectedSignerPK(ov, Len(ov.entries) + 1)

BeforeVoucherPersistKeep(ov, err) == [ov |-> ov, err |-> err]

(* The manufacturing server's hook: the voucher is extended to the         *)
(* configured owner certificate, signed with the manufacturer key.         *)
BeforeVoucherPersist(ov, err) ==
    IF err
    THEN [ov |-> ov, err |-> TRUE]
    ELSE [ov |-> ExtendVoucher(ov, "mfgKey", "ownerCert"), err |-> FALSE]

(* DI.AppStart: the device asks for credentials; the header carries the   *)
(* manufacturer key that DeviceInfo returns.                               *)
AppStart(g) ==
    /\ diState[g] = "AwaitAppStart"
    /\ diState' = [diState EXCEPT ![g] = "AwaitSetHmac"]
    /\ UNCHANGED <<notDi, diHmac, diVouchers, diSupplied, diResold>>

(* DI.SetHmac: the voucher is built with no entries and the device's HMAC, *)
(* passed through the hook and stored; an error of the hook fails DI and   *)
(* nothing is stored.                                                      *)
SetHmac(g, h, err) ==
    /\ diState[g] = "AwaitSetHmac"
    /\ diHmac' = [diHmac EXCEPT ![g] = h]
    /\ LET ov == [mfgPK |-> "mfgKey", hmac |-> h, entries |-> <<>>]
           b == BeforeVoucherPersist(ov, err)
       IN IF b.err
          THEN /\ diState' = [diState EXCEPT ![g] = "Failed"]
               /\ UNCHANGED <<diVouchers, diSupplied>>
          ELSE /\ diState' = [diState EXCEPT ![g] = "Done"]
               /\ diVouchers' = [diVouchers EXCEPT ![g] = b.ov]
               /\ diSupplied' = [diSupplied EXCEPT ![g] = "ownerCert"]
    /\ UNCHANGED <<notDi, diResold>>

(* A later extend of a stored voucher to another owner, signed by any key. *)
Resell(g, signer, nextOwner) ==
    /\ diState[g] = "Done"
    /\ diResold[1] + diResold[2] < MaxExtends
    /\ diVouchers' = [diVouchers EXCEPT ![g] = ExtendVoucher(@, signer, nextOwner)]
    /\ diSupplied' = [diSupplied EXCEPT ![g] = nextOwner]
    /\ diResold' = [diResold EXCEPT ![g] = @ + 1]
    /\ UNCHANGED <<notDi, diState, diHmac>>

DiAppStart == \E g \in Guids : AppStart(g)

DiSetHmac == \E g \in Guids, h \in Hmacs, err \in BOOLEAN : SetHmac(g, h, err)

DiResell == \E g \in Guids, signer \in PKs, nextOwner \in PKs : Resell(g, signer, nextOwner)

DiInit ==
    /\ Idle("di")
    /\ diState = [g \in Guids |-> "AwaitAppStart"]
    /\ diHmac = [g \in Guids |-> 0]
    /\ diVouchers = [g \in Guids |-> NoVoucherYet]
    /\ diSupplied = [g \in Guids |-> "none"]
    /\ diResold = [g \in Guids |-> 0]

DiNext == DiAppStart \/ DiSetHmac \/ DiResell

SpecDi == DiInit /\ [][DiNext]_vars

(* A voucher as DI has just stored it: the round trip is done and nothing  *)
(* has extended the voucher since.                                         *)
FreshFromDI(g) == diState[g] = "Done" /\ diResold[g] = 0

(* C22 as stated: after a DI round trip on the manufacturing server the    *)
(* stored voucher has no entries and the header HMAC the device sent.      *)
PersistedWithoutEntries ==
    \A g \in Guids :
        FreshFromDI(g) => /\ diVouchers[g].entries = <<>>
                          /\ diVouchers[g].hmac = diHmac[g]

(* C22: after a DI round trip on the manufacturing server the stored       *)
(* voucher has the header HMAC the device sent and exactly one entry,      *)
(* signed by the manufacturer key and naming the configured owner          *)
(* certificate's key; when the hook fails nothing is stored.               *)
PersistedPreExtended ==
    \A g \in Guids :
        /\ FreshFromDI(g) =>
              /\ diVouchers[g].hmac = diHmac[g]
              /\ Len(diVouchers[g].entries) = 1
              /\ diVouchers[g].entries[1].signer = "mfgKey"
              /\ diVouchers[g].entries[1].newOwnerPK = "ownerCert"
        /\ diState[g] # "Done" => diVouchers[g] = NoVoucherYet

PersistedPreExtendedWitness ==
    \E g \in Guids : FreshFromDI(g) /\ diHmac[g] = 2 /\ diVouchers[g].hmac = 2

MaxHellos == 3

(* Identifiers a device may offer: registered ones, the two CCM-16 ones    *)
(* that are not implemented and a CCM-64 one.                              *)
OfferedIDs == {1, 3, 30, 32, -17760704}

Offers == {<<a>> : a \in OfferedIDs} \cup {<<a, b>> : a \in OfferedIDs, b \in OfferedIDs}

(* CipherSuiteID.Suite: the registered suite, or a panic. *)
Suite(reg, id) ==
    IF id \in DOMAIN reg
    THEN [panic |-> FALSE, suite |-> reg[id]]
    ELSE [panic |-> TRUE, suite |-> [EncryptAlg |-> "none", MacAlg |-> 0, PRFHash |-> "none"]]

(* The first suite of the device's offer that the owner supports; 0 when   *)
(* there is none.                                                          *)
RECURSIVE FirstSupported(_, _)
FirstSupported(reg, offer) ==
    IF offer = <<>> THEN 0
    ELSE IF Head(offer) \in DOMAIN reg THEN Head(offer)
    ELSE FirstSupported(reg, Tail(offer))

(* TO2.HelloDevice on a new session: the owner picks the cipher suite or   *)
(* answers ErrorMsg and deletes the session.                               *)
HelloDeviceCipher(t, offer) ==
    /\ kxN < MaxHellos
    /\ kxSession[t].state = "none"
    /\ LET id == FirstSupported(ciphers, offer)
       IN IF id = 0
          THEN /\ kxSession' = [kxSession EXCEPT ![t] = [state |-> "deleted", cipher |-> 0]]
               /\ kxReply' = [kxReply EXCEPT ![t] =
                                 [offer |-> offer, reply |-> "ErrorMsg", code |-> "messageBodyError"]]
          ELSE /\ kxSession' = [kxSession EXCEPT ![t] =
                                   [state |-> IF Suite(ciphers, id).panic THEN "panic" ELSE "open",
                                    cipher |-> id]]
               /\ kxReply' = [kxReply EXCEPT ![t] =
                                 [offer |-> offer, reply |-> "ProveOVHdr", code |-> 0]]
    /\ kxN' = kxN + 1
    /\ UNCHANGED <<notKx, ciphers, kxWellFormed>>

(* Encryption algorithms that carry their own tag. *)
IsAE(alg) == alg \in {"A128GCM", "A192GCM", "A256GCM", "AesCcm16_128_128", "AesCcm64_128_128"}

MacMatches(suite) == (suite.MacAlg # 0) <=> ~IsAE(suite.EncryptAlg)

RegisteredSuites ==
    {[EncryptAlg |-> "A256GCM", MacAlg |-> 0, PRFHash |-> "SHA256"],
     [EncryptAlg |-> "AesCcm16_128_128", MacAlg |-> 0, PRFHash |-> "SHA256"],
     [EncryptAlg |-> "AesCcm16_128_128", MacAlg |-> 5, PRFHash |-> "SHA256"],
     [EncryptAlg |-> "A128CTR", MacAlg |-> 5, PRFHash |-> "SHA256"],
     [EncryptAlg |-> "A128CTR", MacAlg |-> 0, PRFHash |-> "SHA256"]}

(* A call of RegisterCipherSuite after init. *)
Register(id, suite) ==
    /\ kxN < MaxHellos
    /\ ciphers' = RegisterCipherSuite(ciphers, id, suite)
    /\ kxWellFormed' = (kxWellFormed /\ MacMatches(suite))
    /\ kxN' = kxN + 1
    /\ UNCHANGED <<notKx, kxSession, kxReply>>

KxHello == \E t \in Tokens, offer \in Offers : HelloDeviceCipher(t, offer)

KxRegister == \E id \in {3, 30, -17760704}, suite \in RegisteredSuites : Register(id, suite)

KxInit ==
    /\ Idle("kx")
    /\ ciphers = kexInit
    /\ kxWellFormed = TRUE
    /\ kxSession = [t \in Tokens |-> [state |-> "none", cipher |-> 0]]
    /\ kxReply = [t \in Tokens |-> NoHello]
    /\ kxN = 0

KxNext == KxHello

SpecKex == KxInit /\ [][KxNext]_vars

KxRegNext == KxHello \/ KxRegister

SpecKexReg == KxInit /\ [][KxRegNext]_vars

SetAddressNever(args) == [set |-> FALSE, address |-> ""]

(* viper.Set("address", args[0]) when a positional argument is given. *)
SetAddress(args) ==
    IF Len(args) > 0
    THEN [set |-> TRUE, address |-> args[1]]
    ELSE [set |-> FALSE, address |-> ""]

(* viper.IsSet: an explicit flag or a key of the configuration file. *)
IsSet(flag, file, k) ==
    \/ flag # "unset"
    \/ file.given /\ file.vals[k] # "unset"

(* viper.GetString of a key bound to a flag: the flag when it was given,   *)
(* else the file's value, else the flag's default, the empty string.       *)
GetString(flag, file, k) ==
    IF flag # "unset" THEN flag
    ELSE IF file.given /\ file.vals[k] # "unset" THEN file.vals[k]
    ELSE ""

(* viper.GetString("address"): the override when set, else the file's      *)
(* value; no flag has that name.                                           *)
GetAddress(over, file) ==
    IF over.set THEN over.address ELSE GetString("unset", file, "address")

(* validatePassword: length and character classes. *)
validatePassword(dbPass) == dbPass # "weak"

Fail(msg) == [NotLoaded EXCEPT !.done = TRUE, !.err = msg]

(* rootCmdLoadConfig and the command's own keys. *)
LoadFromViper(over) ==
    IF ~IsSet(cfgFlags.db, cfgFile, "db") THEN Fail("missing db")
    ELSE IF ~IsSet(cfgFlags.dbPass, cfgFile, "dbPass") THEN Fail("missing db-pass")
    ELSE IF ~validatePassword(GetString(cfgFlags.dbPass, cfgFile, "dbPass"))
    THEN Fail("password")
    ELSE IF GetAddress(over, cfgFile) = "" THEN Fail("address required")
    ELSE [done |-> TRUE, err |-> "",
          address |-> GetAddress(over, cfgFile),
          db |-> GetString(cfgFlags.db, cfgFile, "db"),
          dbPass |-> GetString(cfgFlags.dbPass, cfgFile, "dbPass"),
          key |-> GetString(cfgFlags.key, cfgFile, "key")]

(* manufacturingCmdLoadConfig, ownerCmdLoadConfig, rendezvousCmdLoadConfig *)
LoadConfig ==
    /\ ~cfgOut.done
    /\ cfgOut' = IF cfgFile.given /\ ~cfgFile.readable
                 THEN Fail("configuration file read failed")
                 ELSE LoadFromViper(SetAddress(cfgArgs))
    /\ UNCHANGED <<notCfg, cfgCmd, cfgArgs, cfgFlags, cfgFile>>

CfgFiles ==
    {NoFile} \cup
    {[given |-> TRUE, readable |-> ok, vals |-> v] :
        ok \in BOOLEAN,
        v \in [address : {"unset", "1.2.3.4:1111"}, db : {"unset", "file.db"},
               dbPass : {"unset", "F1le-pass", "weak"}, key : {"unset", "/config/key"}]}

CfgInit ==
    /\ Idle("cfg")
    /\ cfgCmd \in Servers
    /\ cfgArgs \in {<<>>, <<"127.0.0.1:9090">>, <<"">>}
    /\ cfgFlags \in [db : {"unset", "cli.db"}, dbPass : {"unset", "Cl1-passw"},
                     key : {"unset", "/cli/key", ""}]
    /\ cfgFile \in CfgFiles
    /\ cfgOut = NotLoaded

CfgNext == LoadConfig

SpecCfg == CfgInit /\ [][CfgNext]_vars

(* C26: when a command has loaded its configuration, the address is the    *)
(* positional argument if one was given and the file's address otherwise;  *)
(* every other key has the value of its flag if the flag was given on the  *)
(* command line, and the value of the configuration file if it was not.    *)
CommandLineOverridesFile ==
    (cfgOut.done /\ cfgOut.err = "") =>
        /\ cfgOut.address = IF cfgArgs # <<>> THEN cfgArgs[1] ELSE cfgFile.vals.address
        /\ cfgOut.db = IF cfgFlags.db # "unset" THEN cfgFlags.db ELSE cfgFile.vals.db
        /\ cfgOut.dbPass = IF cfgFlags.dbPass # "unset" THEN cfgFlags.dbPass
                           ELSE cfgFile.vals.dbPass
        /\ cfgFlags.key # "unset" => cfgOut.key = cfgFlags.key
        /\ (cfgFlags.key = "unset" /\ cfgFile.vals.key # "unset")
              => cfgOut.key = cfgFile.vals.key

CommandLineOverridesFileWitness ==
    /\ cfgOut.done /\ cfgOut.err = ""
    /\ cfgFile.vals.address = "1.2.3.4:1111" /\ cfgOut.address = "127.0.0.1:9090"
    /\ cfgFile.vals.key = "/config/key" /\ cfgOut.key = "/cli/key"
    /\ cfgFlags.db = "unset" /\ cfgOut.db = "file.db"

(* The number of frames ReadChunk(size) cuts a value of n bytes into under *)
(* a key whose encoding has klen bytes: full budgets, then the rest.       *)
FramesFor(size, klen, n) ==
    LET b == Budget(size, klen) IN (n + b - 1) \div b

(* C27: every devmod:modules chunk written for MTU m is at most as long as *)
(* the value budget of ReadChunk(m) under the key devmod:modules, so it    *)
(* leaves ReadChunk as one frame.                                          *)
ChunkWithinBudget ==
    \A i \in 1..Len(DmChunks) :
        /\ ChunkEncLen(DmChunks[i]) <= Budget(dmMtu, EncLen(DevmodModulesKeyLen))
        /\ FramesFor(dmMtu, EncLen(DevmodModulesKeyLen), ChunkEncLen(DmChunks[i])) = 1

(***************************************************************************)
(* Devmod.Write(ctx, deviceModules, mtu, w) when deviceModules has no      *)
(* custom devmod module: Validate, writeDescriptorMessages, then           *)
(* writeModuleMessages; any error closes the writer with that error, and   *)
(* the deferred Close runs last.                                           *)
(***************************************************************************)
MaxChunks == 2

ValidateNothing(fields) == TRUE

(* Devmod.Validate: no required field is its zero value. *)
Validate(fields) ==
    \A i \in 1..Len(DevmodFields) :
        DevmodFields[i].required => fields[DevmodFields[i].name]

(* The loop of writeDescriptorMessages from field i on: a message for each *)
(* field whose length is not zero.                                         *)
RECURSIVE DescriptorsFrom(_, _)
DescriptorsFrom(fields, i) ==
    IF i > Len(DevmodFields) THEN <<>>
    ELSE (IF fields[DevmodFields[i].name] THEN <<DevmodFields[i].name>> ELSE <<>>)
         \o DescriptorsFrom(fields, i + 1)

(* writeDescriptorMessages: devmod:active, then the fields. *)
writeDescriptorMessages(fields) == <<"active">> \o DescriptorsFrom(fields, 1)

(* The message names writeModuleMessages writes when it succeeds. *)
ModuleMessages(n) == <<"nummodules">> \o [i \in 1..n |-> "modules"]

DwValidate ==
    /\ dwPc = "start"
    /\ IF Validate(dwFields)
       THEN dwPc' = "validated" /\ UNCHANGED dwClosed
       ELSE dwPc' = "failed" /\ dwClosed' = "CloseWithError"
    /\ UNCHANGED <<notDw, dwFields, dwMod, dwOut>>

DwDescriptors ==
    /\ dwPc = "validated"
    /\ dwOut' = dwOut \o writeDescriptorMessages(dwFields)
    /\ dwPc' = "described"
    /\ UNCHANGED <<notDw, dwFields, dwMod, dwClosed>>

DwModules ==
    /\ dwPc = "described"
    /\ IF dwMod = 0
       THEN /\ dwOut' = Append(dwOut, "nummodules")
            /\ dwPc' = "failed"
            /\ dwClosed' = "CloseWithError"
       ELSE /\ dwOut' = dwOut \o ModuleMessages(dwMod)
            /\ dwPc' = "done"
            /\ dwClosed' = "Close"
    /\ UNCHANGED <<notDw, dwFields, dwMod>>

DwInit ==
    /\ Idle("dw")
    /\ dwFields \in [DevmodFieldNames -> BOOLEAN]
    /\ dwMod \in 0..MaxChunks
    /\ dwOut = <<>>
    /\ dwPc = "start"
    /\ dwClosed = "open"

DwNext == DwValidate \/ DwDescriptors \/ DwModules

SpecDw == DwInit /\ [][DwNext]_vars

(* The descriptor names in the order the claim lists them. *)
DeclaredOrder ==
    <<"os", "arch", "version", "device", "sn", "pathsep", "sep", "nl", "tmp", "dir",
      "progenv", "bin", "mudurl">>

IsNonEmptyField(n) == dwFields[n]

(* C28: a Write that succeeds has written devmod:active, then the          *)
(* non-empty fields and only those in the declared order, then             *)
(* devmod:nummodules, then devmod:modules chunks; the six required         *)
(* fields are among them.                                                  *)
StableOrder ==
    dwPc = "done" =>
        /\ dwOut = <<"active">> \o SelectSeq(DeclaredOrder, IsNonEmptyField)
                   \o <<"nummodules">> \o [i \in 1..dwMod |-> "modules"]
        /\ dwMod >= 1
        /\ \A n \in {"os", "arch", "version", "device", "sep", "bin"} :
              \E i \in 1..Len(dwOut) : dwOut[i] = n

StableOrderWitness ==
    /\ dwPc = "done"
    /\ dwFields["sn"] /\ ~dwFields["pathsep"] /\ dwFields["mudurl"] /\ ~dwFields["nl"]
    /\ dwMod = 2
    /\ Len(dwOut) = 12

(***************************************************************************)
(* bufPipe, the pipe of buffered mode, step by step: Write and             *)
(* CloseWithError run under the mutex; Read takes the mutex to look at the *)
(* buffer, releases it, and only then waits on the channel.                *)
(***************************************************************************)
MaxBpBytes == 3

SendNothing(ch) == ch

(* select { case b.ch <- struct{}{}: default: } on the channel of          *)
(* capacity 1: a token is left unless one is there already.                *)
SendToken(ch) == [ch EXCEPT !.tokens = 1]

(* The part of Read under the mutex: bytes are returned if there are any,  *)
(* else the reader goes on to wait on the channel.                         *)
ReadLocked(p) ==
    IF Len(bpBuf) > 0
    THEN /\ bpRead' = bpRead \o Take(bpBuf, Min(p, Len(bpBuf)))
         /\ bpBuf' = Drop(bpBuf, Min(p, Len(bpBuf)))
         /\ bpRpc' = [at |-> "idle", p |-> 0]
         /\ bpRes' = "nil"
    ELSE /\ bpRpc' = [at |-> "recv", p |-> p]
         /\ UNCHANGED <<bpRead, bpBuf, bpRes>>

(* The reader calls Read with a slice of p bytes. *)
BpReadCall(p) ==
    /\ bpRpc.at = "idle"
    /\ ReadLocked(p)
    /\ UNCHANGED <<notBp, bpErr, bpCh, bpWritten>>

(* _, ok := <-b.ch: a token if there is one, else not ok once the channel  *)
(* is closed; otherwise the reader stays blocked.                          *)
BpRecv ==
    /\ bpRpc.at = "recv"
    /\ \/ /\ bpCh.tokens = 1
          /\ bpCh' = [bpCh EXCEPT !.tokens = 0]
          /\ bpRpc' = [bpRpc EXCEPT !.at = "loop"]
          /\ UNCHANGED bpRes
       \/ /\ bpCh.tokens = 0
          /\ bpCh.closed
          /\ bpRpc' = [at |-> "returned", p |-> 0]
          /\ bpRes' = bpErr
          /\ UNCHANGED bpCh
    /\ UNCHANGED <<notBp, bpBuf, bpErr, bpRead, bpWritten>>

(* The next turn of the loop of Read. *)
BpReadLoop ==
    /\ bpRpc.at = "loop"
    /\ ReadLocked(bpRpc.p)
    /\ UNCHANGED <<notBp, bpErr, bpCh, bpWritten>>

(* bufPipe.Write of n bytes, whole under the mutex. *)
BpWriteCall(n) ==
    /\ Len(bpWritten) + n <= MaxBpBytes
    /\ IF bpErr # "nil"
       THEN UNCHANGED <<bpCh, bpBuf, bpWritten>>
       ELSE /\ bpCh' = SendToken(bpCh)
            /\ bpBuf' = bpBuf \o [i \in 1..n |-> Len(bpWritten) + i]
            /\ bpWritten' = bpWritten \o [i \in 1..n |-> Len(bpWritten) + i]
    /\ UNCHANGED <<notBp, bpErr, bpRpc, bpRes, bpRead>>

(* bufPipe.CloseWithError(err), whole under the mutex; Close passes io.EOF *)
BpCloseWithError(err) ==
    /\ IF bpErr = "nil"
       THEN /\ bpErr' = err
            /\ bpCh' = [bpCh EXCEPT !.closed = TRUE]
       ELSE UNCHANGED <<bpErr, bpCh>>
    /\ UNCHANGED <<notBp, bpBuf, bpRpc, bpRes, bpRead, bpWritten>>

BpRead == \E p \in 1..2 : BpReadCall(p)

BpWrite == \E n \in 1..2 : BpWriteCall(n)

BpClose == \E err \in {"EOF", "failure"} : BpCloseWithError(err)

BpInit ==
    /\ Idle("bp")
    /\ bpBuf = <<>>
    /\ bpErr = "nil"
    /\ bpCh = [tokens |-> 0, closed |-> FALSE]
    /\ bpRpc = [at |-> "idle", p |-> 0]
    /\ bpRes = "nil"
    /\ bpRead = <<>>
    /\ bpWritten = <<>>

BpNext == BpRead \/ BpRecv \/ BpReadLoop \/ BpWrite \/ BpClose

SpecBp == BpInit /\ [][BpNext]_vars

(* The reader's goroutine is scheduled: a step of Read that can be taken   *)
(* is taken.  Nothing makes the producer write or close.                   *)
SpecBpLive == SpecBp /\ WF_vars(BpRecv) /\ WF_vars(BpReadLoop)

(* The reader sits at the channel receive and nothing lets it go on. *)
BpBlocked == bpRpc.at = "recv" /\ bpCh.tokens = 0 /\ ~bpCh.closed

BpInsideRead == bpRpc.at \in {"recv", "loop"}

(* C29: a reader inside Read is never blocked while the buffer holds bytes *)
(* or the pipe is closed, and from such a state its Read returns; the      *)
(* bytes Read returns are the bytes written, in order, and when Read       *)
(* returns the close error all of them have been returned.                 *)
NoLostWakeup ==
    /\ [](BpBlocked => (bpBuf = <<>> /\ bpErr = "nil"))
    /\ [](IsPrefix(bpRead, bpWritten))
    /\ [](bpRpc.at = "returned" => (bpRead = bpWritten /\ bpRes = bpErr /\ bpErr # "nil"))
    /\ ((BpInsideRead /\ (bpBuf # <<>> \/ bpErr # "nil")) ~> ~BpInsideRead)

NoLostWakeupWitness ==
    /\ bpRpc.at = "returned"
    /\ bpRes = "failure"
    /\ Len(bpRead) = 3

(* C30: after ReadChunk has returned ErrSizeTooSmall for a logical KV that *)
(* holds its key, the KV is still whole: its pipe has not been closed by   *)
(* the reader and none of its bytes has been thrown away.                  *)
SizeTooSmallKeepsKV ==
    \A i \in 1..Len(out) :
        (/\ out[i].e = "ErrSizeTooSmall"
         /\ out[i].kv \in KVIds
         /\ pipes[out[i].kv].wr # <<>>)
            => /\ ~pipes[out[i].kv].dropped
               /\ pipes[out[i].kv].rerr = "nil"

(* C31: every logical KV the consumer has read past, whose pipe neither    *)
(* side closed with an error and whose key was not cut off by an           *)
(* undersized read, has given at least one frame with its key.             *)
EveryKVHasFrame ==
    \A id \in KVIds :
        (/\ ReaderPast(id)
         /\ ~pipes[id].dropped
         /\ pipes[id].rerr = "nil"
         /\ pipes[id].werr \in {"nil", "EOF"}
         /\ perr = "nil")
            => /\ NumFrames(id) >= 1
               /\ \A i \in 1..Len(Frames) : Frames[i].kv = id => Frames[i].key = pipes[id].key

(***************************************************************************)
(* The UnchunkWriter's closed flag and its readers channel, call by call.  *)
(* A send on a closed channel and a second close of a channel panic.       *)
(***************************************************************************)
MaxUwCalls == 4

ChanSend(ch) ==
    IF ch.closes > 0 THEN [ch EXCEPT !.panic = TRUE] ELSE [ch EXCEPT !.sends = @ + 1]

ChanClose(ch) ==
    IF ch.closes > 0 THEN [ch EXCEPT !.panic = TRUE] ELSE [ch EXCEPT !.closes = 1]

NeverClosed(c) == FALSE

(* if w.closed { return io.ErrClosedPipe } *)
IsClosed(c) == c

UwCalled(op, res) ==
    /\ Len(uwCalls) < MaxUwCalls
    /\ ~uwChan.panic
    /\ uwCalls' = Append(uwCalls, op)
    /\ uwLast' = [op |-> op, wasClosed |-> uwClosed, res |-> res, before |-> uwChan]

(* NextServiceInfo and ForceNewMessage: nextPipe *)
UwNextPipe(op) ==
    /\ IF IsClosed(uwClosed)
       THEN /\ UwCalled(op, "ErrClosedPipe")
            /\ UNCHANGED <<uwClosed, uwW, uwChan>>
       ELSE /\ UwCalled(op, "nil")
            /\ uwChan' = ChanSend(uwChan)
            /\ uwW' = TRUE
            /\ UNCHANGED uwClosed
    /\ UNCHANGED notUw

UwNextServiceInfo == UwNextPipe("NextServiceInfo")

UwForceNewMessage == UwNextPipe("ForceNewMessage")

(* UnchunkWriter.Close *)
UwClose ==
    /\ IF IsClosed(uwClosed)
       THEN /\ UwCalled("Close", "ErrClosedPipe")
            /\ UNCHANGED <<uwClosed, uwW, uwChan>>
       ELSE /\ UwCalled("Close", "nil")
            /\ uwClosed' = TRUE
            /\ uwChan' = ChanClose(uwChan)
            /\ uwW' = TRUE
    /\ UNCHANGED notUw

(* UnchunkWriter.CloseWithError *)
UwCloseWithError ==
    /\ IF IsClosed(uwClosed)
       THEN /\ UwCalled("CloseWithError", "ErrClosedPipe")
            /\ UNCHANGED <<uwClosed, uwW, uwChan>>
       ELSE /\ UwCalled("CloseWithError", "nil")
            /\ uwClosed' = TRUE
            /\ uwChan' = ChanClose(IF uwW THEN uwChan ELSE ChanSend(uwChan))
            /\ uwW' = TRUE
    /\ UNCHANGED notUw

UwInit == Idle("uw") /\ UwInit0

UwNext == UwNextServiceInfo \/ UwForceNewMessage \/ UwClose \/ UwCloseWithError

SpecUw == UwInit /\ [][UwNext]_vars

(* C32: the readers channel is closed at most once and nothing panics; a   *)
(* call made after the first Close or CloseWithError returns               *)
(* io.ErrClosedPipe and leaves the channel as it was.                      *)
ClosedExactlyOnce ==
    /\ ~uwChan.panic
    /\ uwChan.closes = (IF uwClosed THEN 1 ELSE 0)
    /\ uwLast.wasClosed => (uwLast.res = "ErrClosedPipe" /\ uwChan = uwLast.before)
    /\ (uwLast.op # "none" /\ ~uwLast.wasClosed) => uwLast.res = "nil"

ClosedExactlyOnceWitness ==
    /\ uwLast.op = "Close"
    /\ uwLast.wasClosed
    /\ uwCalls = <<"NextServiceInfo", "CloseWithError", "ForceNewMessage", "Close">>
    /\ uwChan.sends = 1

(* The consumer has stopped calling ReadChunk: its last call returned      *)
(* io.EOF or an error other than ErrSizeTooSmall, and it did not Close.    *)
ConsumerStopped ==
    /\ cpc = "idle"
    /\ nreads > 0
    /\ ~rdone
    /\ cres.e \notin {"nil", "ErrSizeTooSmall"}

(* Devmod.Write stops at the first error an UnchunkWriter call returns.    *)
(* A state in which no call has returned one: the pipe is buffered, so a   *)
(* write fails only on a closed pipe; nothing was called after Close; and  *)
(* every pipe the reader discarded had been closed by the writer before,   *)
(* so nothing was written to it afterwards.                                *)
NoProducerError ==
    /\ buffers > 0
    /\ ~closed
    /\ pres \in {"none", "nil"}
    /\ \A id \in 1..Len(pipes) :
          pipes[id].dropped =>
              /\ pipes[id].werr = "EOF"
              /\ \E i \in 1..Len(out) :
                    out[i].kv = id /\ out[i].t = "key" /\ out[i].e = "ErrUnexpectedEOF"

(* C33: when the consumer reads until io.EOF or another error, a producer  *)
(* that stops at its first error (Devmod.Write) is never left blocked in   *)
(* an UnchunkWriter call.                                                  *)
WriteTerminates == (ConsumerStopped /\ NoProducerError) => ~ProducerStuck

(* C34: Module never returns an empty name with a nil module and a nil     *)
(* error: when it returns no error, the name and the module are those of   *)
(* the current module.                                                     *)
ModuleErrorOrCurrent ==
    \A token \in Tokens :
        (smRes[token].op = "Module" /\ smRes[token].err = "nil")
            => /\ smRes[token].name # ""
               /\ smRes[token].impl # 0

(* C35: within one TO2 session the owner's operations are offered one      *)
(* after the other, each once: every NextModule of a session that has      *)
(* started and returns true moves that session's iterator forward by one   *)
(* operation of the fixed order.                                           *)
OfferedOnceInOrder ==
    [][\A token \in Tokens :
          (/\ smStarted[token]
           /\ smRes'[token].op = "NextModule"
           /\ smRes'[token].err = "nil"
           /\ smRes'[token].valid
           /\ token \in DOMAIN states'
           /\ (token \notin DOMAIN states \/ states'[token] # states[token]))
              => /\ token \in DOMAIN states
                 /\ states'[token].pos = states[token].pos + 1]_vars

----------------------------------------------------------------------------
(* SpecRvRace: POST and PUT requests to /api/v1/rvinfo served at the same  *)
(* time by one handler, one goroutine per request, on an empty database.   *)
(* createRvData and updateRvData take the handler's mutex first and        *)
(* release it when they return; between the two a goroutine parses the     *)
(* body, asks the database whether the row exists, writes the row and      *)
(* refreshes *rvInfo, and the goroutines interleave at each of these.      *)

MaxConcurrent == 3

RcRequests ==
    {[method |-> m, ct |-> [type |-> <<"application/json">>, params |-> ""], body |-> b] :
        m \in {"POST", "PUT"},
        b \in {[form |-> "wrapped", val |-> x] : x \in RvValues}
              \cup {[form |-> "invalid", val |-> NoRow]}}

InitRc ==
    /\ Idle("rc")
    /\ rcReqs \in [1..MaxConcurrent -> RcRequests]
    /\ rcPc = [i \in 1..MaxConcurrent |-> "start"]
    /\ rcMu = 0
    /\ rcData = [i \in 1..MaxConcurrent |-> NoRow]
    /\ rcStore = NoRow
    /\ rcInfo = 0
    /\ rcResp = [i \in 1..MaxConcurrent |-> 0]
    /\ rcSeen = [i \in 1..MaxConcurrent |-> NoRow]

(* The handler writes its answer and returns; the deferred mu.Unlock runs *)
RcReturn(i, code) ==
    /\ rcResp' = [rcResp EXCEPT ![i] = code]
    /\ rcSeen' = [rcSeen EXCEPT ![i] = rcStore]
    /\ rcPc' = [rcPc EXCEPT ![i] = "done"]
    /\ rcMu' = 0

(* mu.Lock() *)
RcLock(i) ==
    /\ rcPc[i] = "start"
    /\ rcMu = 0
    /\ rcMu' = i
    /\ rcPc' = [rcPc EXCEPT ![i] = "parse"]
    /\ UNCHANGED <<notRc, rcReqs, rcData, rcStore, rcInfo, rcResp, rcSeen>>

(* rvData, err := parseRequestBody(r) *)
RcParse(i) ==
    /\ rcPc[i] = "parse"
    /\ LET parsed == parseRequestBody(rcReqs[i].ct, rcReqs[i].body) IN
       IF parsed.ok
       THEN /\ rcData' = [rcData EXCEPT ![i] = parsed.val]
            /\ rcPc' = [rcPc EXCEPT ![i] = "check"]
            /\ UNCHANGED <<rcMu, rcStore, rcResp, rcSeen>>
       ELSE /\ RcReturn(i, StatusBadRequest)
            /\ UNCHANGED <<rcData, rcStore>>
    /\ UNCHANGED <<notRc, rcReqs, rcInfo>>

(* db.CheckDataExists("rvinfo") and the test on it *)
RcCheckDataExists(i) ==
    /\ rcPc[i] = "check"
    /\ LET exists == rcStore # NoRow IN
       IF rcReqs[i].method = "POST" /\ exists
       THEN RcReturn(i, StatusConflict) /\ UNCHANGED rcStore
       ELSE IF rcReqs[i].method = "PUT" /\ ~exists
       THEN RcReturn(i, StatusNotFound) /\ UNCHANGED rcStore
       ELSE /\ rcPc' = [rcPc EXCEPT ![i] = "write"]
            /\ UNCHANGED <<rcMu, rcStore, rcResp, rcSeen>>
    /\ UNCHANGED <<notRc, rcReqs, rcData, rcInfo>>

(* db.InsertData(rvData, "rvinfo") / db.UpdateDataInDB(rvData, "rvinfo") *)
RcWrite(i) ==
    /\ rcPc[i] = "write"
    /\ rcStore' = rcData[i]
    /\ rcPc' = [rcPc EXCEPT ![i] = "retrieve"]
    /\ UNCHANGED <<notRc, rcReqs, rcMu, rcData, rcInfo, rcResp, rcSeen>>

(* rvinfo.RetrieveRvInfo(rvInfo) and the answer *)
RcRetrieveRvInfo(i) ==
    /\ rcPc[i] = "retrieve"
    /\ LET rr == RetrieveRvInfo(rcStore, rcInfo) IN
       /\ rcInfo' = rr.info
       /\ RcReturn(i, IF ~rr.ok THEN StatusInternalServerError
                      ELSE IF rcReqs[i].method = "POST" THEN StatusCreated
                      ELSE StatusOK)
    /\ UNCHANGED <<notRc, rcReqs, rcData, rcStore>>

NextRvRace ==
    \/ \E i \in 1..MaxConcurrent : RcLock(i)
    \/ \E i \in 1..MaxConcurrent : RcParse(i)
    \/ \E i \in 1..MaxConcurrent : RcCheckDataExists(i)
    \/ \E i \in 1..MaxConcurrent : RcWrite(i)
    \/ \E i \in 1..MaxConcurrent : RcRetrieveRvInfo(i)

SpecRvRace == InitRc /\ [][NextRvRace]_vars

RcWellFormed(i) == parseRequestBody(rcReqs[i].ct, rcReqs[i].body).ok

RcSent(i) == parseRequestBody(rcReqs[i].ct, rcReqs[i].body).val

RcPosts == {i \in DOMAIN rcReqs : rcReqs[i].method = "POST" /\ RcWellFormed(i)}

RcPuts == {i \in DOMAIN rcReqs : rcReqs[i].method = "PUT" /\ RcWellFormed(i)}

(* C36: of the well-formed POSTs served at the same time on an empty       *)
(* database exactly one is answered 201, with its value stored, and every  *)
(* other one 409; a PUT served with them is answered 404, or 200 with its  *)
(* value stored.                                                           *)
CreateIsAtomic ==
    /\ (RcPosts # {} /\ \A i \in RcPosts : rcPc[i] = "done")
       => \E i \in RcPosts :
             /\ rcResp[i] = StatusCreated
             /\ rcSeen[i] = RcSent(i)
             /\ \A j \in RcPosts \ {i} : rcResp[j] = StatusConflict
    /\ \A i \in RcPuts :
          rcPc[i] = "done"
          => \/ rcResp[i] = StatusNotFound
             \/ rcResp[i] = StatusOK /\ rcSeen[i] = RcSent(i)

====
